---- MODULE Spec2Model ----
(***************************************************************************)
(* AGI Grounding Benchmark v2.0: the judge arbitration engine              *)
(* (evaluators/llm_judge.py) and the evaluation orchestrator (__main__.py). *)
(*                                                                         *)
(* Normalized layer scores are exact rationals [n, d] (n/d, d > 0).  The   *)
(* structural and reference scores range over the grid k/GridSteps.        *)
(* Python's None is the value None; dict key order is a sequence of keys.  *)
(***************************************************************************)
EXTENDS Integers, Sequences, FiniteSets, TLC

\* ------------------------------------------------------------------ bounds
\* structural/reference normalized scores are k/GridSteps, k in 0..GridSteps
GridSteps == 2
\* longest provider dict explored for a single evaluate_judge call
MaxProviders == 3
\* largest --seeds value explored
MaxSeeds == 2
\* largest run matrix (tests x providers x seeds) whose runs are explored
\* with every provider outcome, layer score and judge reply
MaxRuns == 3
\* largest run matrix the orchestrator is run on; above MaxRuns runs each run
\* ends in a response of layer scores 0.0 and 1.0 that the judge scores 0 or 3
MaxMatrix == 8
\* longest list of structural checks evaluate_structural is called on
MaxChecks == 3
\* longest conversation evaluate_reference is called on, in turns
MaxTurns == 2
\* most register_test calls made on one registry
MaxRegistrations == 3
\* longest prompt list query_multi_round is called on
MaxPrompts == 3
\* longest rating sequence cohens_kappa is called on
MaxRatings == 3
\* largest integer a judge writes after "SCORE:"
MaxWritten == 12
\* most lines of a response text given to the structural checks
MaxLines == 5
\* largest threshold of a minimum-lines check
MaxThreshold == 5
\* longest list of structural checks evaluated check by check
MaxCheckList == 2

\* ----------------------------------------------------------------- helpers
None == "None"
\* None where the value is otherwise an integer (Optional[int])
NoneInt == -1

Rat(n, d) == [n |-> n, d |-> d]
RatAdd(a, b) == Rat(a.n * b.d + b.n * a.d, a.d * b.d)
RatSub(a, b) == Rat(a.n * b.d - b.n * a.d, a.d * b.d)
RatScale(a, k) == Rat(a.n * k, a.d)
RatDiv(a, k) == Rat(a.n, a.d * k)
RatAbs(a) == Rat(IF a.n < 0 THEN -a.n ELSE a.n, a.d)
RatGT(a, b) == a.n * b.d > b.n * a.d
RatLE(a, b) == a.n * b.d <= b.n * a.d
RatEq(a, b) == a.n * b.d = b.n * a.d
Abs(x) == IF x < 0 THEN -x ELSE x
Min(a, b) == IF a < b THEN a ELSE b
Max(a, b) == IF a > b THEN a ELSE b

\* Python 3 round(): to the nearest integer, a tie to the even neighbour
PyRound(q) ==
    LET fl == q.n \div q.d
        rem == q.n % q.d
    IN  IF 2 * rem < q.d THEN fl
        ELSE IF 2 * rem > q.d THEN fl + 1
        ELSE IF fl % 2 = 0 THEN fl ELSE fl + 1

\* d.get(k)
DictGet(d, k) == IF k \in DOMAIN d THEN d[k] ELSE None
\* k in d, for a dict given by its keys in insertion order
InKeys(k, keys) == \E i \in 1..Len(keys) : keys[i] = k

\* ------------------------------------------------------ providers/__init__
ALL_PROVIDERS == <<"claude", "gpt", "gemini", "atic_on", "atic_off">>
ProviderIds == {ALL_PROVIDERS[i] : i \in 1..Len(ALL_PROVIDERS)}

\* --------------------------------------------------- evaluators/llm_judge
JUDGE_ROTATION ==
    [claude |-> "gpt", gpt |-> "claude", gemini |-> "claude",
     atic_on |-> "gpt", atic_off |-> "gpt"]

JUDGE_FALLBACK ==
    [claude |-> "gemini", gpt |-> "gemini", gemini |-> "gpt",
     atic_on |-> "claude", atic_off |-> "claude"]

TIEBREAK_JUDGE ==
    [claude |-> "gemini", gpt |-> "gemini", gemini |-> "gpt",
     atic_on |-> "gemini", atic_off |-> "gemini"]

SCORE_MAX == 3

JudgeResult(score_raw, normalized, reason, judge_provider_id, tiebreak_used) ==
    [score_raw |-> score_raw, normalized |-> normalized, reason |-> reason,
     judge_provider_id |-> judge_provider_id, tiebreak_used |-> tiebreak_used]

JudgeAudit(primary_judge, primary_score, primary_reason) ==
    [primary_judge |-> primary_judge, primary_score |-> primary_score,
     primary_reason |-> primary_reason, tiebreak_judge |-> None,
     tiebreak_score |-> NoneInt, tiebreak_reason |-> None,
     final_source |-> "primary"]

\* the last resort takes the first available provider, whoever it is
_select_judge_any(provider_id, available) ==
    LET primary == DictGet(JUDGE_ROTATION, provider_id)
        fallback == DictGet(JUDGE_FALLBACK, provider_id)
    IN  IF primary # None /\ InKeys(primary, available) /\ primary # provider_id
        THEN primary
        ELSE IF fallback # None /\ InKeys(fallback, available)
                /\ fallback # provider_id
        THEN fallback
        ELSE IF available # <<>> THEN Head(available)
        ELSE None

\* the fallback table is consulted before the rotation table
_select_judge_fallback_first(provider_id, available) ==
    LET primary == DictGet(JUDGE_ROTATION, provider_id)
        fallback == DictGet(JUDGE_FALLBACK, provider_id)
        others == SelectSeq(available, LAMBDA pid : pid # provider_id)
    IN  IF fallback # None /\ InKeys(fallback, available)
           /\ fallback # provider_id
        THEN fallback
        ELSE IF primary # None /\ InKeys(primary, available)
                /\ primary # provider_id
        THEN primary
        ELSE IF others # <<>> THEN Head(others)
        ELSE None

_select_judge(provider_id, available) ==
    LET primary == DictGet(JUDGE_ROTATION, provider_id)
        fallback == DictGet(JUDGE_FALLBACK, provider_id)
        others == SelectSeq(available, LAMBDA pid : pid # provider_id)
    IN  IF primary # None /\ InKeys(primary, available) /\ primary # provider_id
        THEN primary
        ELSE IF fallback # None /\ InKeys(fallback, available)
                /\ fallback # provider_id
        THEN fallback
        ELSE IF others # <<>> THEN Head(others)
        ELSE None

\* only the primary judge is excluded, not the evaluated provider
_select_tiebreak_judge_self(provider_id, primary_judge_id, available) ==
    LET tb == DictGet(TIEBREAK_JUDGE, provider_id)
        others == SelectSeq(available, LAMBDA pid : pid # primary_judge_id)
    IN  IF tb # None /\ InKeys(tb, available) /\ tb # primary_judge_id
        THEN tb
        ELSE IF others # <<>> THEN Head(others)
        ELSE None

\* the table entry is taken without comparing it with the primary judge
_select_tiebreak_judge_table(provider_id, primary_judge_id, available) ==
    LET tb == DictGet(TIEBREAK_JUDGE, provider_id)
        others == SelectSeq(available,
                     LAMBDA pid : pid # provider_id /\ pid # primary_judge_id)
    IN  IF tb # None /\ InKeys(tb, available) /\ tb # provider_id
        THEN tb
        ELSE IF others # <<>> THEN Head(others)
        ELSE None

\* without a third provider the primary judge breaks its own tie
_select_tiebreak_judge_primary_again(provider_id, primary_judge_id, available) ==
    LET tb == DictGet(TIEBREAK_JUDGE, provider_id)
        others == SelectSeq(available,
                     LAMBDA pid : pid # provider_id /\ pid # primary_judge_id)
    IN  IF tb # None /\ InKeys(tb, available) /\ tb # primary_judge_id
           /\ tb # provider_id
        THEN tb
        ELSE IF others # <<>> THEN Head(others)
        ELSE primary_judge_id

_select_tiebreak_judge(provider_id, primary_judge_id, available) ==
    LET tb == DictGet(TIEBREAK_JUDGE, provider_id)
        others == SelectSeq(available,
                     LAMBDA pid : pid # provider_id /\ pid # primary_judge_id)
    IN  IF tb # None /\ InKeys(tb, available) /\ tb # primary_judge_id
           /\ tb # provider_id
        THEN tb
        ELSE IF others # <<>> THEN Head(others)
        ELSE None

\* the threshold is met at a divergence of exactly 0.5
_needs_tiebreak_ge(judge_score, structural_norm, reference_norm) ==
    LET judge_norm == Rat(judge_score, 3)
        layer_avg == RatDiv(RatAdd(structural_norm, reference_norm), 2)
        divergence == RatAbs(RatSub(judge_norm, layer_avg))
    IN  ~RatGT(Rat(1, 2), divergence)

_needs_tiebreak(judge_score, structural_norm, reference_norm) ==
    LET judge_norm == Rat(judge_score, 3)
        layer_avg == RatDiv(RatAdd(structural_norm, reference_norm), 2)
        divergence == RatAbs(RatSub(judge_norm, layer_avg))
    IN  RatGT(divergence, Rat(1, 2))

\* A judge reply: the query raised, returned an error response, or returned
\* a text.  Of a text the parser reads: the digit after the first "SCORE:"
\* (NoneInt when the format is absent), the first standalone digit 0-3
\* (NoneInt when there is none) and whether a "REASON:" part is present.
ReplyText(score_match, nums, reason_match) ==
    [kind |-> "text", score_match |-> score_match, nums |-> nums,
     reason_match |-> reason_match]

\* the digit after "SCORE:" is taken as it stands
_parse_judge_response_unclamped(text) ==
    LET score == IF text.score_match # NoneInt THEN text.score_match
                 ELSE IF text.nums # NoneInt THEN text.nums ELSE 0
        reason == IF text.score_match = NoneInt THEN "(parse fallback)"
                  ELSE IF text.reason_match THEN "REASON" ELSE ""
    IN  <<score, reason>>

_parse_judge_response(text) ==
    LET score == IF text.score_match # NoneInt
                 THEN Max(0, Min(SCORE_MAX, text.score_match))
                 ELSE IF text.nums # NoneInt THEN text.nums ELSE 0
        reason == IF text.score_match = NoneInt THEN "(parse fallback)"
                  ELSE IF text.reason_match THEN "REASON" ELSE ""
    IN  <<score, reason>>

_call_judge(reply) ==
    IF reply.kind = "raise" THEN <<0, "Judge exception">>
    ELSE IF reply.kind = "error" THEN <<0, "Judge error">>
    ELSE _parse_judge_response(reply)

\* the dataclass defaults are left in place of the "none" markers
_fallback_result_unmarked ==
    JudgeResult(0, Rat(0, 3), "", "", FALSE)

_fallback_result ==
    JudgeResult(0, Rat(0, 3), "No judge available", "none", FALSE)

\* the enable flag is not consulted
tiebreak_requested_always(enable_tiebreak, primary_score, structural_normalized, reference_normalized) ==
    _needs_tiebreak(primary_score, structural_normalized, reference_normalized)

\* llm_judge.py:135-137, the guard of the tiebreak branch
tiebreak_requested(enable_tiebreak, primary_score, structural_normalized, reference_normalized) ==
    enable_tiebreak
    /\ _needs_tiebreak(primary_score, structural_normalized, reference_normalized)

\* the agreement with the layers is tested before the one with the primary
resolve_tiebreak_layers_first(primary_score, tb_score, structural_normalized, reference_normalized) ==
    LET layer_avg == RatDiv(RatAdd(structural_normalized, reference_normalized), 2)
        layer_score_equiv == PyRound(RatScale(layer_avg, 3))
    IN  IF Abs(tb_score - layer_score_equiv) <= 1
        THEN [final_score |-> PyRound(Rat(primary_score + tb_score, 2)),
              final_source |-> "average (tiebreak sided with layers)"]
        ELSE IF Abs(tb_score - primary_score) <= 1
        THEN [final_score |-> primary_score,
              final_source |-> "primary (tiebreak confirmed)"]
        ELSE [final_score |-> PyRound(Rat(primary_score + tb_score, 2)),
              final_source |-> "average (no consensus)"]

\* the average is truncated (int()) instead of rounded
resolve_tiebreak_truncating(primary_score, tb_score, structural_normalized, reference_normalized) ==
    LET layer_avg == RatDiv(RatAdd(structural_normalized, reference_normalized), 2)
        layer_score_equiv == PyRound(RatScale(layer_avg, 3))
    IN  IF Abs(tb_score - primary_score) <= 1
        THEN [final_score |-> primary_score,
              final_source |-> "primary (tiebreak confirmed)"]
        ELSE IF Abs(tb_score - layer_score_equiv) <= 1
        THEN [final_score |-> (primary_score + tb_score) \div 2,
              final_source |-> "average (tiebreak sided with layers)"]
        ELSE [final_score |-> (primary_score + tb_score) \div 2,
              final_source |-> "average (no consensus)"]

\* llm_judge.py:149-165, the resolution of a tiebreak: final score and label
resolve_tiebreak(primary_score, tb_score, structural_normalized, reference_normalized) ==
    LET layer_avg == RatDiv(RatAdd(structural_normalized, reference_normalized), 2)
        layer_score_equiv == PyRound(RatScale(layer_avg, 3))
    IN  IF Abs(tb_score - primary_score) <= 1
        THEN [final_score |-> primary_score,
              final_source |-> "primary (tiebreak confirmed)"]
        ELSE IF Abs(tb_score - layer_score_equiv) <= 1
        THEN [final_score |-> PyRound(Rat(primary_score + tb_score, 2)),
              final_source |-> "average (tiebreak sided with layers)"]
        ELSE [final_score |-> PyRound(Rat(primary_score + tb_score, 2)),
              final_source |-> "average (no consensus)"]

\* the tiebreak judge's identity is not written to the audit
record_tiebreak_anonymous(audit, tiebreak_id, tb_score, tb_reason, final_source) ==
    [audit EXCEPT !.tiebreak_score = tb_score,
                  !.tiebreak_reason = tb_reason,
                  !.final_source = final_source]

\* the label follows the wording of the tiebreak judge's reply
record_tiebreak_by_reason(audit, tiebreak_id, tb_score, tb_reason, final_source) ==
    [audit EXCEPT !.tiebreak_judge = tiebreak_id,
                  !.tiebreak_score = tb_score,
                  !.tiebreak_reason = tb_reason,
                  !.final_source = IF tb_reason = "REASON" THEN final_source
                                   ELSE "average (no consensus)"]

\* llm_judge.py:145-147 and the final_source assignments: the audit of a
\* tiebreak
record_tiebreak(audit, tiebreak_id, tb_score, tb_reason, final_source) ==
    [audit EXCEPT !.tiebreak_judge = tiebreak_id,
                  !.tiebreak_score = tb_score,
                  !.tiebreak_reason = tb_reason,
                  !.final_source = final_source]

\* evaluate_judge; primary_reply and tiebreak_reply are what the selected
\* providers answer when (and if) they are queried.  calls lists the
\* providers queried, in order.
evaluate_judge(evaluated_provider_id, available_providers, structural_normalized, reference_normalized, enable_tiebreak, primary_reply, tiebreak_reply) ==
    LET judge_id == _select_judge(evaluated_provider_id, available_providers)
    IN
    IF judge_id = None
    THEN [result |-> _fallback_result,
          audit |-> JudgeAudit("none", 0, "No judge available"),
          calls |-> <<>>]
    ELSE
    LET primary == _call_judge(primary_reply)
        primary_score == primary[1]
        primary_reason == primary[2]
        audit == JudgeAudit(judge_id, primary_score, primary_reason)
        tiebreak_id ==
            IF tiebreak_requested(enable_tiebreak, primary_score,
                                  structural_normalized, reference_normalized)
            THEN _select_tiebreak_judge(evaluated_provider_id, judge_id,
                                        available_providers)
            ELSE None
    IN
    IF tiebreak_id # None
    THEN
        LET tb == _call_judge(tiebreak_reply)
            tb_score == tb[1]
            tb_reason == tb[2]
            res == resolve_tiebreak(primary_score, tb_score,
                                    structural_normalized, reference_normalized)
        IN  [result |-> JudgeResult(res.final_score, Rat(res.final_score, 3),
                                    primary_reason, judge_id, TRUE),
             audit |-> record_tiebreak(audit, tiebreak_id, tb_score, tb_reason,
                                       res.final_source),
             calls |-> <<judge_id, tiebreak_id>>]
    ELSE [result |-> JudgeResult(primary_score, Rat(primary_score, 3),
                                 primary_reason, judge_id, FALSE),
          audit |-> audit,
          calls |-> <<judge_id>>]

\* ------------------------------------------------------------ state
VARIABLES
    call,   \* the arguments of the call in progress (evaluate_judge, or one
            \* of the operations below that are run on their own)
    ret,    \* <<what the call returned>>, empty before it returns
    pc,     \* where the program is
    args,             \* main: the parsed command line
    providers,        \* main: the keys of the provider dict, in dict order
    tests,            \* main: the filtered test definitions, in dict order
    seed,             \* main: the loop's seed (from 0)
    test_ix,          \* main: the loop's position in tests (from 1)
    provider_ix,      \* main: the loop's position in providers (from 1)
    all_evaluations,  \* main: the audit log
    score_matrix,     \* main: provider id -> test id -> final scores
    judge_pairs,      \* main: <<provider id, judge id>> -> score pairs
    audit_data,       \* main: <<the audit record>> once it is built
    queries,          \* per run of the log, the judges queried during it
    invoked,          \* per run of the log, the evaluator calls made in it
    local,            \* the local variables of the call in progress
    _TEST_REGISTRY    \* tests/test_defs.py: the global registry of tests

judge_vars == <<call, ret>>
main_vars == <<args, providers, tests, seed, test_ix, provider_ix,
               all_evaluations, score_matrix, judge_pairs, audit_data, queries,
               invoked>>
unit_vars == <<local, _TEST_REGISTRY>>
vars == <<call, ret, pc, args, providers, tests, seed, test_ix, provider_ix,
          all_evaluations, score_matrix, judge_pairs, audit_data, queries,
          invoked, local, _TEST_REGISTRY>>

\* every duplicate-free sequence of provider ids of length at most n
RECURSIVE KeySeqs(_)
KeySeqs(n) ==
    IF n = 0 THEN {<<>>}
    ELSE LET shorter == KeySeqs(n - 1)
         IN  shorter \cup
             {Append(ks, p) : ks \in {x \in shorter : Len(x) = n - 1},
                              p \in ProviderIds}
RealKeySeqs(n) ==
    {ks \in KeySeqs(n) : \A i, j \in 1..Len(ks) : i # j => ks[i] # ks[j]}

GridScores == {Rat(k, GridSteps) : k \in 0..GridSteps}

ScoreDigits == 0..9

JudgeReplies ==
    {[kind |-> "raise"], [kind |-> "error"]}
    \cup {ReplyText(d, NoneInt, TRUE) : d \in ScoreDigits}
    \cup {ReplyText(SCORE_MAX, NoneInt, FALSE)}
    \cup {ReplyText(NoneInt, n, FALSE) : n \in {NoneInt} \cup 0..SCORE_MAX}

JudgeCalls ==
    {[evaluated_provider_id |-> e, available_providers |-> av,
      structural_normalized |-> s, reference_normalized |-> r,
      enable_tiebreak |-> en] :
        e \in ProviderIds,
        av \in {ks \in RealKeySeqs(Min(MaxProviders, Len(ALL_PROVIDERS))) : TRUE},
        s \in GridScores, r \in GridScores, en \in BOOLEAN}

Init ==
    /\ call \in {c \in JudgeCalls :
                    InKeys(c.evaluated_provider_id, c.available_providers)}
    /\ ret = <<>>
    /\ pc = "call"
    /\ args = <<>> /\ providers = <<>> /\ tests = <<>>
    /\ seed = 0 /\ test_ix = 1 /\ provider_ix = 1
    /\ all_evaluations = <<>> /\ score_matrix = <<>> /\ judge_pairs = <<>>
    /\ audit_data = <<>> /\ queries = <<>> /\ invoked = <<>>
    /\ local = <<>> /\ _TEST_REGISTRY = <<>>

\* one call of evaluate_judge: the primary judge answers primary_reply, and
\* the tiebreak judge, when it is queried, answers tiebreak_reply
EvaluateJudge ==
    /\ pc = "call"
    /\ pc' = "returned"
    /\ \E primary_reply \in JudgeReplies :
          LET Eval(tiebreak_reply) ==
                  evaluate_judge(call.evaluated_provider_id,
                                 call.available_providers,
                                 call.structural_normalized,
                                 call.reference_normalized,
                                 call.enable_tiebreak,
                                 primary_reply, tiebreak_reply)
              probe == Eval([kind |-> "error"])
          IN  IF Len(probe.calls) = 2
              THEN \E tiebreak_reply \in JudgeReplies :
                       ret' = <<Eval(tiebreak_reply)>>
              ELSE ret' = <<probe>>
    /\ UNCHANGED <<call, main_vars, unit_vars>>

Next == EvaluateJudge

Spec == Init /\ [][Next]_vars


\* ------------------------------------------------------------ __main__.py
\* dict operations; a dict is a function, the empty dict is <<>>
DictSet(d, k, v) == [x \in DOMAIN d \cup {k} |-> IF x = k THEN v ELSE d[x]]
Get(d, k, default) == IF k \in DOMAIN d THEN d[k] ELSE default

\* tests/: the first test of the first two registered categories; prompts is
\* len(test.prompts)
TestCatalog ==
    << [test_id |-> "SC-01", category |-> "self-correction", prompts |-> 2],
       [test_id |-> "EC-01", category |-> "epistemic-calibration", prompts |-> 1] >>

\* --models: not given (<<>>), or an explicit list
RequestedModels == { <<>>, <<"gemini", "atic_on", "claude">> }
\* --categories: not given (<<>>), one category, or one no test has
RequestedCategories ==
    { <<>>, <<"self-correction">>, <<"epistemic-calibration">>, <<"no-such">> }

\* --fast is given together with the largest --seeds, or not at all
MainArgs ==
    {a \in [fast : BOOLEAN, seeds : 1..MaxSeeds, models : RequestedModels,
            categories : RequestedCategories] : a.fast => a.seeds = MaxSeeds}

\* the sets of providers found available (is_available) at startup
Availabilities ==
    { {}, {"gpt"}, {"atic_on"},
      {"claude", "gpt"}, {"gemini", "atic_off"}, {"atic_on", "atic_off"},
      {"claude", "gpt", "gemini"}, {"claude", "gemini", "atic_on"},
      {"gemini", "atic_on", "atic_off"},
      {"claude", "gpt", "gemini", "atic_on"}, ProviderIds }

\* main, lines 240-244
args_seeds == IF args.fast THEN 1 ELSE args.seeds
main_enable_tiebreak == ~args.fast

\* the providers whose is_available() holds are those of the set up
detect_and_create_providers(requested, up) ==
    LET targets == IF requested # <<>> THEN requested ELSE ALL_PROVIDERS
    IN  SelectSeq(targets, LAMBDA provider_id :
                    provider_id \in ProviderIds /\ provider_id \in up)

filter_tests(all_tests, categories) ==
    IF categories = <<>> THEN all_tests
    ELSE SelectSeq(all_tests, LAMBDA t : InKeys(t.category, categories))

\* One provider execution, as the list of turns it returns.  A turn carries
\* its role and whether its error is set.
Turn(role, error) == [role |-> role, error |-> error]
IsATIC(provider_id) == provider_id \in {"atic_on", "atic_off"}

\* provider.query(prompts[0]) wrapped into two turns (main, lines 156-166)
SingleRounds == {<<Turn("user", FALSE), Turn("assistant", e)>> : e \in BOOLEAN}

\* BaseProvider.query_multi_round over two prompts: each call may fail
MultiRounds ==
    {<<Turn("user", FALSE), Turn("assistant", e1),
       Turn("user", FALSE), Turn("assistant", e2)>> : e1 \in BOOLEAN, e2 \in BOOLEAN}

\* ATICProvider.query_multi_round, lines 156-160: the coordinator cannot be
\* set up, and the conversation is one "system" turn carrying the error
ATICSetupFailure == <<Turn("system", TRUE)>>

\* what provider_id can return for test
ProviderRounds(provider_id, test) ==
    IF test.prompts > 1
    THEN MultiRounds \cup (IF IsATIC(provider_id) THEN {ATICSetupFailure} ELSE {})
    ELSE SingleRounds

\* Claude, GPT and Gemini import their SDK and build their client outside
\* the try block of query: that failure is raised to the caller.  ATIC's
\* query and query_multi_round catch every exception.
QueryMayRaise(provider_id) == ~IsATIC(provider_id)

\* main, lines 173-175
has_error(rounds) ==
    \E i \in 1..Len(rounds) : rounds[i].role = "assistant" /\ rounds[i].error

\* evaluate_reference, lines 46-49: without any assistant turn the response
\* text is empty and the reference score is 0.0
reference_normalized_of(rounds, reference) ==
    IF \E i \in 1..Len(rounds) : rounds[i].role = "assistant"
    THEN reference
    ELSE Rat(0, GridSteps)

\* round(x, 4)
Round4(x) == Rat(PyRound(RatScale(x, 10000)), 10000)

\* main, lines 176-182
error_result(test, provider_id, rounds) ==
    [test_id |-> test.test_id, model |-> provider_id, rounds |-> rounds,
     error |-> TRUE, structural_score |-> Rat(0, 1),
     reference_score |-> Rat(0, 1), judge_score |-> Rat(0, 1),
     final_score |-> Rat(0, 1)]

\* a plain mean of the three layers
weighted_final_plain_mean(structural_n, reference_n, judge_n) ==
    RatDiv(RatAdd(RatAdd(structural_n, reference_n), judge_n), 3)

\* main, lines 225-229: the judge layer counts double
weighted_final(structural_n, reference_n, judge_n) ==
    RatDiv(RatAdd(RatAdd(structural_n, reference_n), RatScale(judge_n, 2)), 4)

\* evaluate_judge is called without the two layer scores, which take their
\* defaults (llm_judge.py:95-96)
judge_layer_inputs_defaults(structural_n, reference_n) ==
    <<Rat(0, 1), Rat(0, 1)>>

\* main, lines 207-208: the layer scores handed to evaluate_judge
judge_layer_inputs(structural_n, reference_n) ==
    <<structural_n, reference_n>>

\* run_single_evaluation.  rounds is what the provider execution returned;
\* structural and reference are the scores the two evaluators give to a
\* response text.  Returns the result dict, the judges queried and the
\* evaluator calls made, in order.
run_single_evaluation(test, provider_id, available_providers, enable_tiebreak, rounds, structural, reference, primary_reply, tiebreak_reply) ==
    IF has_error(rounds)
    THEN [result |-> error_result(test, provider_id, rounds), calls |-> <<>>,
          layers |-> <<>>]
    ELSE
    LET structural_n == structural
        reference_n == reference_normalized_of(rounds, reference)
        judge_inputs == judge_layer_inputs(structural_n, reference_n)
        judged == evaluate_judge(provider_id, available_providers,
                                 judge_inputs[1], judge_inputs[2], enable_tiebreak,
                                 primary_reply, tiebreak_reply)
        judge_result == judged.result
        judge_audit == judged.audit
        final == weighted_final(structural_n, reference_n,
                                judge_result.normalized)
    IN  [result |->
            [test_id |-> test.test_id, model |-> provider_id,
             rounds |-> rounds,
             structural_score |-> structural_n,
             reference_score |-> reference_n,
             judge_score |-> judge_result.normalized,
             judge_raw |-> judge_result.score_raw,
             judge_reason |-> judge_result.reason,
             judge_provider |-> judge_result.judge_provider_id,
             tiebreak_used |-> judge_result.tiebreak_used,
             judge_audit |->
                [primary_judge |-> judge_audit.primary_judge,
                 primary_score |-> judge_audit.primary_score,
                 tiebreak_judge |-> judge_audit.tiebreak_judge,
                 tiebreak_score |-> judge_audit.tiebreak_score,
                 final_source |-> judge_audit.final_source],
             final_score |-> Round4(final)],
         calls |-> judged.calls,
         layers |-> << [layer |-> "structural"], [layer |-> "reference"],
                       [layer |-> "judge",
                        structural_normalized |-> judge_inputs[1],
                        reference_normalized |-> judge_inputs[2]] >>]

\* main, lines 328-332
self_evals(evaluations) ==
    Cardinality({i \in 1..Len(evaluations) :
                    Get(evaluations[i], "judge_provider", "")
                        = Get(evaluations[i], "model", "")})

\* the inputs of the orchestrator's runs
MainLayerScores ==
    { <<Rat(0, GridSteps), Rat(0, GridSteps)>>,
      <<Rat(GridSteps, GridSteps), Rat(GridSteps, GridSteps)>>,
      <<Rat(0, GridSteps), Rat(GridSteps, GridSteps)>> }
MainReplies == {ReplyText(0, NoneInt, TRUE), ReplyText(SCORE_MAX, NoneInt, TRUE)}

\* total_runs, main line 279
total_runs == Len(tests) * Len(providers) * args_seeds
\* the run outcomes explored for the run matrix at hand
ExploredRounds(provider_id, test) ==
    IF total_runs <= MaxRuns THEN ProviderRounds(provider_id, test)
    ELSE {rounds \in ProviderRounds(provider_id, test) :
             Len(rounds) > 1 /\ ~has_error(rounds)}
ExploredLayerScores ==
    IF total_runs <= MaxRuns THEN MainLayerScores
    ELSE {<<Rat(0, GridSteps), Rat(GridSteps, GridSteps)>>}
ExploredReplies == MainReplies

MainInit ==
    /\ call = <<>> /\ ret = <<>>
    /\ pc = "start"
    /\ args \in MainArgs
    /\ providers = <<>> /\ tests = <<>>
    /\ seed = 0 /\ test_ix = 1 /\ provider_ix = 1
    /\ all_evaluations = <<>> /\ score_matrix = <<>> /\ judge_pairs = <<>>
    /\ audit_data = <<>> /\ queries = <<>> /\ invoked = <<>>
    /\ local = <<>> /\ _TEST_REGISTRY = <<>>

\* main, lines 246-255; the environments explored are those whose run
\* matrix (tests x providers x seeds) holds at most MaxMatrix runs
DetectProviders ==
    /\ pc = "start"
    /\ \E up \in Availabilities :
          /\ providers' = detect_and_create_providers(args.models, up)
          /\ Len(filter_tests(TestCatalog, args.categories))
                * Len(providers') * args_seeds <= MaxMatrix
          /\ pc' = IF providers' = <<>> THEN "exit" ELSE "detected"
    /\ UNCHANGED <<unit_vars, judge_vars, args, tests, seed, test_ix, provider_ix,
                   all_evaluations, score_matrix, judge_pairs, audit_data,
                   queries, invoked>>

\* main, lines 257-280
LoadTests ==
    /\ pc = "detected"
    /\ tests' = filter_tests(TestCatalog, args.categories)
    /\ pc' = IF tests' = <<>> THEN "exit" ELSE "loop"
    /\ UNCHANGED <<unit_vars, judge_vars, args, providers, seed, test_ix, provider_ix,
                   all_evaluations, score_matrix, judge_pairs, audit_data,
                   queries, invoked>>

\* the provider loop is the outer one and the test loop the inner one
Advance_tests_inner ==
    IF test_ix < Len(tests)
    THEN /\ test_ix' = test_ix + 1
         /\ UNCHANGED <<provider_ix, seed>>
         /\ pc' = "loop"
    ELSE IF provider_ix < Len(providers)
    THEN /\ test_ix' = 1
         /\ provider_ix' = provider_ix + 1
         /\ UNCHANGED seed
         /\ pc' = "loop"
    ELSE IF seed + 1 < args_seeds
    THEN /\ provider_ix' = 1
         /\ test_ix' = 1
         /\ seed' = seed + 1
         /\ pc' = "loop"
    ELSE /\ UNCHANGED <<provider_ix, test_ix, seed>>
         /\ pc' = "stats"

\* the loop's next position, or the end of the loop
Advance ==
    IF provider_ix < Len(providers)
    THEN /\ provider_ix' = provider_ix + 1
         /\ UNCHANGED <<test_ix, seed>>
         /\ pc' = "loop"
    ELSE IF test_ix < Len(tests)
    THEN /\ provider_ix' = 1
         /\ test_ix' = test_ix + 1
         /\ UNCHANGED seed
         /\ pc' = "loop"
    ELSE IF seed + 1 < args_seeds
    THEN /\ provider_ix' = 1
         /\ test_ix' = 1
         /\ seed' = seed + 1
         /\ pc' = "loop"
    ELSE /\ UNCHANGED <<provider_ix, test_ix, seed>>
         /\ pc' = "stats"

\* the pair holds the primary judge's score next to the final score
judge_pair_of_primary(result) ==
    <<result.judge_audit.primary_score, Get(result, "judge_raw", 0)>>

\* main, lines 316-318: the entry of the judge-pair agreement table
judge_pair_of(result) ==
    <<Get(result, "judge_raw", 0), Get(result, "judge_raw", 0)>>

\* the cell keeps the latest final score only
Record_overwriting(result, calls) ==
    LET test_id == tests[test_ix].test_id
        provider_id == providers[provider_ix]
        stamped == DictSet(result, "seed", seed)
        row == Get(score_matrix, provider_id, <<>>)
    IN  /\ all_evaluations' = Append(all_evaluations, stamped)
        /\ score_matrix' =
              DictSet(score_matrix, provider_id,
                      DictSet(row, test_id, <<stamped.final_score>>))
        /\ judge_pairs' = judge_pairs
        /\ queries' = Append(queries, calls)

\* main, lines 299-318: the result is recorded and accumulated
Record(result, calls) ==
    LET test_id == tests[test_ix].test_id
        provider_id == providers[provider_ix]
        stamped == DictSet(result, "seed", seed)
        row == Get(score_matrix, provider_id, <<>>)
        cell == Get(row, test_id, <<>>)
        judge_id == Get(stamped, "judge_provider", "")
        pair_key == <<provider_id, judge_id>>
    IN  /\ all_evaluations' = Append(all_evaluations, stamped)
        /\ score_matrix' =
              DictSet(score_matrix, provider_id,
                      DictSet(row, test_id, Append(cell, stamped.final_score)))
        /\ judge_pairs' =
              IF judge_id # "" /\ judge_id # provider_id
              THEN DictSet(judge_pairs, pair_key,
                           Append(Get(judge_pairs, pair_key, <<>>),
                                  judge_pair_of(stamped)))
              ELSE judge_pairs
        /\ queries' = Append(queries, calls)

\* one pass of the loop body, main lines 286-318: the provider is executed,
\* its response evaluated, the result recorded
RunCombination ==
    /\ pc = "loop"
    /\ \E rounds \in ExploredRounds(providers[provider_ix], tests[test_ix]),
          layers \in ExploredLayerScores, primary_reply \in ExploredReplies :
          LET Run(tiebreak_reply) ==
                  run_single_evaluation(tests[test_ix], providers[provider_ix],
                                        providers, main_enable_tiebreak, rounds,
                                        layers[1], layers[2],
                                        primary_reply, tiebreak_reply)
              probe == Run([kind |-> "error"])
          IN  /\ IF Len(probe.calls) = 2
                 THEN \E tiebreak_reply \in ExploredReplies :
                          Record(Run(tiebreak_reply).result, Run(tiebreak_reply).calls)
                 ELSE Record(probe.result, probe.calls)
              /\ invoked' = Append(invoked, probe.layers)
    /\ Advance
    /\ UNCHANGED <<unit_vars, judge_vars, args, providers, tests, audit_data>>

\* the provider's query raises: nothing in run_single_evaluation or main
\* catches it
ProviderRaises ==
    /\ pc = "loop"
    /\ QueryMayRaise(providers[provider_ix])
    /\ pc' = "crashed"
    /\ UNCHANGED <<unit_vars, judge_vars, main_vars>>

\* main, lines 320-360: the audit record is built and the files are written
SaveResults ==
    /\ pc = "stats"
    /\ audit_data' =
          << [seeds |-> args_seeds,
              total_tests |-> Len(tests),
              total_providers |-> Len(providers),
              total_evaluations |-> Len(all_evaluations),
              self_evaluations |-> self_evals(all_evaluations)] >>
    /\ pc' = "done"
    /\ UNCHANGED <<unit_vars, judge_vars, args, providers, tests, seed, test_ix,
                   provider_ix, all_evaluations, score_matrix, judge_pairs,
                   queries, invoked>>

MainNext ==
    \/ DetectProviders
    \/ LoadTests
    \/ RunCombination
    \/ ProviderRaises
    \/ SaveResults

SpecMain == MainInit /\ [][MainNext]_vars

\* the loop body: the combination is run, or its provider raises
LoopStep == RunCombination \/ ProviderRaises

\* main is one sequential program: while a step is possible, one is taken.
\* The loop body is possible exactly when pc = "loop", so its weak fairness
\* is written with that condition.
SpecMainFair ==
    /\ MainInit /\ [][MainNext]_vars
    /\ WF_vars(DetectProviders) /\ WF_vars(LoadTests) /\ WF_vars(SaveResults)
    /\ ([]<>(pc # "loop") \/ []<><<LoopStep>>_vars)

\* ---------------------------------------------- providers/: one query call
\* the variables of main, when main is not running
MainIdle ==
    /\ args = <<>> /\ providers = <<>> /\ tests = <<>>
    /\ seed = 0 /\ test_ix = 1 /\ provider_ix = 1
    /\ all_evaluations = <<>> /\ score_matrix = <<>> /\ judge_pairs = <<>>
    /\ audit_data = <<>> /\ queries = <<>> /\ invoked = <<>>

\* claude_provider.py:17, gpt_provider.py:17, gemini_provider.py:17
MAX_RETRIES == 3
\* claude_provider.py:18
RETRY_CODES == {429, 529}
\* the providers that call a vendor API
APIProviders == {"claude", "gpt", "gemini"}

\* What one API attempt can end in: the response, or an exception of the
\* SDK.  status is the HTTP status of an APIStatusError (0 otherwise), text
\* what str(e) says.
Outcome(kind, status, text) == [kind |-> kind, status |-> status, text |-> text]
AttemptOutcomes(provider_id) ==
    IF provider_id = "gemini"
    THEN {Outcome("ok", 0, "")}
         \cup {Outcome("Exception", 0, t) :
                 t \in {"429", "RESOURCE_EXHAUSTED", "quota", "timeout"}}
    ELSE {Outcome("ok", 0, ""), Outcome("RateLimitError", 429, "rate limit"),
          Outcome("APIStatusError", 529, "overloaded"),
          Outcome("APIStatusError", 500, "internal error"),
          Outcome("Exception", 0, "timeout")}

\* ProviderResponse: error is None or the message
ProviderResponse(text, error) == [text |-> text, error |-> error]

\* every failed attempt is tried again
is_retried_any_failure(provider_id, outcome) == outcome.kind # "ok"

\* the except clauses of the three query methods: the failures after which
\* the loop goes on to its next attempt
is_retried(provider_id, outcome) ==
    IF provider_id = "claude"
    THEN \/ outcome.kind = "RateLimitError"
         \/ outcome.kind = "APIStatusError" /\ outcome.status \in RETRY_CODES
    ELSE IF provider_id = "gpt"
    THEN outcome.kind = "RateLimitError"
    ELSE /\ outcome.kind = "Exception"
         /\ outcome.text \in {"429", "RESOURCE_EXHAUSTED", "quota"}

\* query starts for one of the API providers
QueryInit ==
    /\ call \in {[op |-> "query", provider_id |-> p] : p \in APIProviders}
    /\ ret = <<>>
    /\ pc = "setup"
    /\ local = <<>> /\ _TEST_REGISTRY = <<>>
    /\ MainIdle

\* the SDK import and the lazy client, before the try: they succeed, or
\* their exception leaves query
QuerySetup ==
    /\ pc = "setup"
    /\ \/ /\ pc' = "attempt"
          /\ local' = [attempt |-> 0, last_error |-> None, outcomes |-> <<>>]
       \/ /\ pc' = "raised"
          /\ local' = [attempt |-> 0, last_error |-> None, outcomes |-> <<>>]
    /\ UNCHANGED <<call, ret, main_vars, _TEST_REGISTRY>>

\* one pass of `for attempt in range(MAX_RETRIES)`; after the last pass the
\* method returns its "failed after MAX_RETRIES attempts" response
QueryAttempt ==
    /\ pc = "attempt"
    /\ local.attempt < MAX_RETRIES
    /\ \E outcome \in AttemptOutcomes(call.provider_id) :
          LET made == Append(local.outcomes, outcome)
          IN  IF outcome.kind = "ok"
              THEN /\ ret' = <<ProviderResponse("text", None)>>
                   /\ pc' = "returned"
                   /\ local' = [local EXCEPT !.outcomes = made]
              ELSE IF is_retried(call.provider_id, outcome)
              THEN /\ local' = [attempt |-> local.attempt + 1,
                                last_error |-> outcome.text,
                                outcomes |-> made]
                   /\ IF local.attempt + 1 < MAX_RETRIES
                      THEN pc' = "attempt" /\ ret' = ret
                      ELSE /\ pc' = "returned"
                           /\ ret' = <<ProviderResponse("", "exhausted")>>
              ELSE /\ ret' = <<ProviderResponse("", "error")>>
                   /\ pc' = "returned"
                   /\ local' = [local EXCEPT !.outcomes = made]
    /\ UNCHANGED <<call, main_vars, _TEST_REGISTRY>>

QueryNext == QuerySetup \/ QueryAttempt

SpecQuery == QueryInit /\ [][QueryNext]_vars

\* ------------------------------------------- evaluators/structural.py
\* A structural check, as evaluate_structural's aggregation sees it: the
\* score _evaluate_single_check gives it (0.0, 0.5 or 1.0) and its declared
\* weight.
CheckScores == {Rat(0, 2), Rat(1, 2), Rat(2, 2)}
CheckWeights == -1..2
ScoredChecks == [score : CheckScores, weight : CheckWeights]

RECURSIVE total_weight_of(_)
total_weight_of(checks) ==
    IF checks = <<>> THEN 0
    ELSE total_weight_of(SubSeq(checks, 1, Len(checks) - 1))
         + checks[Len(checks)].weight

RECURSIVE weighted_score_of(_)
weighted_score_of(checks) ==
    IF checks = <<>> THEN Rat(0, 2)
    ELSE RatAdd(weighted_score_of(SubSeq(checks, 1, Len(checks) - 1)),
                RatScale(checks[Len(checks)].score, checks[Len(checks)].weight))

\* max(0.0, min(1.0, x))
Clamp01(x) ==
    LET capped == IF RatGT(Rat(1, 1), x) THEN x ELSE Rat(1, 1)
    IN  IF RatGT(capped, Rat(0, 1)) THEN capped ELSE Rat(0, 1)

\* the weighted mean is returned as it is
evaluate_structural_unclamped(checks) ==
    IF checks = <<>> THEN [normalized |-> Rat(1, 1)]
    ELSE [normalized |-> IF total_weight_of(checks) > 0
                         THEN RatDiv(weighted_score_of(checks),
                                     total_weight_of(checks))
                         ELSE Rat(0, 1)]

evaluate_structural(checks) ==
    IF checks = <<>> THEN [normalized |-> Rat(1, 1)]
    ELSE LET total_weight == total_weight_of(checks)
             weighted_score == weighted_score_of(checks)
             normalized == IF total_weight > 0
                           THEN RatDiv(weighted_score, total_weight)
                           ELSE Rat(0, 1)
         IN  [normalized |-> Clamp01(normalized)]

\* every list of at most n scored checks
CheckLists(n) == UNION {[1..k -> ScoredChecks] : k \in 0..n}

StructuralInit ==
    /\ call \in {[op |-> "evaluate_structural", checks |-> cs] :
                     cs \in CheckLists(MaxChecks)}
    /\ ret = <<>>
    /\ pc = "call"
    /\ local = <<>> /\ _TEST_REGISTRY = <<>>
    /\ MainIdle

EvaluateStructural ==
    /\ pc = "call"
    /\ ret' = <<evaluate_structural(call.checks)>>
    /\ pc' = "returned"
    /\ UNCHANGED <<call, main_vars, unit_vars>>

StructuralNext == EvaluateStructural

SpecStructural == StructuralInit /\ [][StructuralNext]_vars

\* ------------------------------- evaluators/structural.py: the checks
\* A response text is its lines: "" is a blank line, "x" a line of text.
\* A pattern is "x" (found in a line "x"), "y" (found in no line) or "("
\* (not a regular expression: re.search raises re.error).
Lines == {"", "x"}
Texts == UNION {[1..k -> Lines] : k \in 0..MaxLines}
Patterns == {"x", "y", "("}
CheckTypes == {"regex_present", "regex_absent", "min_lines"}
\* a check_type that is not a key of the evaluators dict
UnknownCheckType == "no_such_check"

StructuralCheck(check_type, pattern, threshold) ==
    [check_type |-> check_type, pattern |-> pattern, threshold |-> threshold]

CheckResult(passed, score, detail) ==
    [passed |-> passed, score |-> score, detail |-> detail]

\* re.search(pattern, text): "raise" stands for re.error
re_search(pattern, text) ==
    IF pattern = "(" THEN "raise"
    ELSE IF \E i \in 1..Len(text) : text[i] = pattern THEN "found"
    ELSE "not found"

_check_regex_present(check, text) ==
    LET found == re_search(check.pattern, text)
    IN  IF found = "raise" THEN CheckResult(FALSE, Rat(0, 2), "Regex invalido")
        ELSE IF found = "found" THEN CheckResult(TRUE, Rat(2, 2), "Pattern encontrado")
        ELSE CheckResult(FALSE, Rat(0, 2), "Pattern nao encontrado")

\* a pattern that cannot be compiled counts as absent
_check_regex_absent_lenient(check, text) ==
    LET found == re_search(check.pattern, text)
    IN  IF found = "found" THEN CheckResult(FALSE, Rat(0, 2), "Pattern presente (ruim)")
        ELSE CheckResult(TRUE, Rat(2, 2), "Pattern ausente (bom)")

_check_regex_absent(check, text) ==
    LET found == re_search(check.pattern, text)
    IN  IF found = "raise" THEN CheckResult(FALSE, Rat(0, 2), "Regex invalido")
        ELSE IF found = "found" THEN CheckResult(FALSE, Rat(0, 2), "Pattern presente (ruim)")
        ELSE CheckResult(TRUE, Rat(2, 2), "Pattern ausente (bom)")

\* len([l for l in text.strip().split("\n") if l.strip()])
count_lines(text) == Cardinality({i \in 1..Len(text) : text[i] # ""})

\* half credit needs more than 60% of the threshold
_check_min_lines_above_sixty(check, text) ==
    LET count == count_lines(text)
        required == check.threshold
        score == IF count >= required THEN Rat(2, 2)
                 ELSE IF 10 * count > required * 6 THEN Rat(1, 2)
                 ELSE Rat(0, 2)
    IN  CheckResult(count >= required, score, "linhas")

\* count >= required * 0.6 is compared in tenths
_check_min_lines(check, text) ==
    LET count == count_lines(text)
        required == check.threshold
        score == IF count >= required THEN Rat(2, 2)
                 ELSE IF 10 * count >= required * 6 THEN Rat(1, 2)
                 ELSE Rat(0, 2)
    IN  CheckResult(count >= required, score, "linhas")

_evaluate_single_check(check, text) ==
    IF check.check_type = "regex_present" THEN _check_regex_present(check, text)
    ELSE IF check.check_type = "regex_absent" THEN _check_regex_absent(check, text)
    ELSE IF check.check_type = "min_lines" THEN _check_min_lines(check, text)
    ELSE CheckResult(FALSE, Rat(0, 2), "Tipo desconhecido")

\* evaluate_structural, lines 50-56: the per-check results, in check order
RECURSIVE results_of(_, _)
results_of(checks, text) ==
    IF checks = <<>> THEN <<>>
    ELSE Append(results_of(SubSeq(checks, 1, Len(checks) - 1), text),
                _evaluate_single_check(checks[Len(checks)], text))

StructuralChecks ==
    {StructuralCheck(t, pt, 0) : t \in {"regex_present", "regex_absent"}, pt \in Patterns}
    \cup {StructuralCheck("min_lines", "", th) : th \in 0..MaxThreshold}
    \cup {StructuralCheck(UnknownCheckType, "", 0)}
StructuralCheckLists == UNION {[1..k -> StructuralChecks] : k \in 0..MaxCheckList}

ChecksInit ==
    /\ call \in {[op |-> "results", checks |-> cs, text |-> tx] :
                     cs \in StructuralCheckLists, tx \in Texts}
    /\ ret = <<>>
    /\ pc = "call"
    /\ local = <<>> /\ _TEST_REGISTRY = <<>>
    /\ MainIdle

\* the loop of evaluate_structural over the checks of one test
EvaluateChecks ==
    /\ pc = "call"
    /\ ret' = <<results_of(call.checks, call.text)>>
    /\ pc' = "returned"
    /\ UNCHANGED <<call, main_vars, unit_vars>>

ChecksNext == EvaluateChecks

SpecChecks == ChecksInit /\ [][ChecksNext]_vars

\* -------------------------------------------- evaluators/reference.py
\* the five sub-checks, in the order evaluate_reference applies them
SubChecks ==
    <<"keyword_coverage", "anti_keyword_absence", "numeric_accuracy",
      "text_similarity", "anti_hallucination">>
SubCheckNames == {SubChecks[i] : i \in 1..Len(SubChecks)}

\* A test, as evaluate_reference reads it: for each sub-check, whether the
\* test has what makes it apply (a non-empty keyword list, a non-empty
\* anti-keyword list, numeric ranges, a ground truth, the anti_hallucination
\* flag).
ReferenceTests == [SubCheckNames -> BOOLEAN]

\* a turn of the conversation: its role and its content, which is empty
\* (""), blank (" ") or has text
Message(role, content) == [role |-> role, content |-> content]
Messages ==
    {Message("user", "text")}
    \cup {Message("assistant", c) : c \in {"", " ", "text"}}
Conversations(n) == UNION {[1..k -> Messages] : k \in 0..n}

\* _extract_full_response(rounds).strip() is empty: no assistant turn has
\* anything but whitespace
full_text_is_blank(rounds) ==
    \A i \in 1..Len(rounds) :
        rounds[i].role = "assistant" => rounds[i].content \in {"", " "}

\* the sum of the sub-scores of the first k sub-checks that apply
RECURSIVE sum_sub_scores(_, _, _)
sum_sub_scores(test, scores, k) ==
    IF k = 0 THEN Rat(0, 1)
    ELSE IF test[SubChecks[k]]
    THEN RatAdd(sum_sub_scores(test, scores, k - 1), scores[SubChecks[k]])
    ELSE sum_sub_scores(test, scores, k - 1)

\* no reference requirement counts as nothing earned
evaluate_reference_strict(test, rounds, scores) ==
    IF full_text_is_blank(rounds) THEN [normalized |-> Rat(0, 1)]
    ELSE LET active_scores ==
                 Cardinality({c \in SubCheckNames : test[c]})
         IN  [normalized |->
                 Clamp01(IF active_scores > 0
                         THEN RatDiv(sum_sub_scores(test, scores, Len(SubChecks)),
                                     active_scores)
                         ELSE Rat(0, 1))]

\* evaluate_reference; scores gives, for each sub-check, the score its
\* function returns on the response text
evaluate_reference(test, rounds, scores) ==
    IF full_text_is_blank(rounds) THEN [normalized |-> Rat(0, 1)]
    ELSE LET active_scores ==
                 Cardinality({c \in SubCheckNames : test[c]})
         IN  [normalized |->
                 Clamp01(IF active_scores > 0
                         THEN RatDiv(sum_sub_scores(test, scores, Len(SubChecks)),
                                     active_scores)
                         ELSE Rat(1, 1))]

\* the sub-scores: all alike, or alternating between the extremes
SubScores ==
    {[c \in SubCheckNames |-> q] : q \in GridScores}
    \cup {[c \in SubCheckNames |->
              IF c \in {"keyword_coverage", "numeric_accuracy"}
              THEN Rat(GridSteps, GridSteps) ELSE Rat(0, GridSteps)]}

ReferenceInit ==
    /\ call \in {[op |-> "evaluate_reference", test |-> t, rounds |-> r,
                   scores |-> sc] :
                     t \in ReferenceTests, r \in Conversations(MaxTurns),
                     sc \in SubScores}
    /\ ret = <<>>
    /\ pc = "call"
    /\ local = <<>> /\ _TEST_REGISTRY = <<>>
    /\ MainIdle

EvaluateReference ==
    /\ pc = "call"
    /\ ret' = <<evaluate_reference(call.test, call.rounds, call.scores)>>
    /\ pc' = "returned"
    /\ UNCHANGED <<call, main_vars, unit_vars>>

ReferenceNext == EvaluateReference

SpecReference == ReferenceInit /\ [][ReferenceNext]_vars

\* ------------------------------------- providers/: query_multi_round
\* What one call of the model ends in (self.query for the base method,
\* coordinator.process for ATIC): a text, an error, or, for the providers
\* whose query can raise, an exception that leaves the method.
QueryOutcome(kind, text) == [kind |-> kind, text |-> text]
QueryOutcomes(provider_id) ==
    {QueryOutcome("ok", "r1"), QueryOutcome("ok", "r2"), QueryOutcome("error", "")}
    \cup (IF QueryMayRaise(provider_id) THEN {QueryOutcome("raise", "")} ELSE {})

UserTurn(prompt_text) ==
    [role |-> "user", content |-> prompt_text, error |-> None]
AssistantTurn(outcome) ==
    [role |-> "assistant", content |-> outcome.text,
     error |-> IF outcome.kind = "ok" THEN None ELSE "error"]
\* what of a turn is passed on as context: who spoke, and what
Spoken(conversation) ==
    [i \in 1..Len(conversation) |->
        [role |-> conversation[i].role, content |-> conversation[i].content]]

\* the conversation after the first k prompts (base_provider.py:53-71,
\* atic_provider.py:165-202)
RECURSIVE conversation_after(_, _, _)
conversation_after(prompts, outcomes, k) ==
    IF k = 0 THEN <<>>
    ELSE conversation_after(prompts, outcomes, k - 1)
         \o <<UserTurn(prompts[k]), AssistantTurn(outcomes[k])>>

\* BaseProvider: the prompt of call k is the whole conversation so far, the
\* k-th user turn included (_build_conversation_prompt)
base_context(prompts, outcomes, k) ==
    Spoken(Append(conversation_after(prompts, outcomes, k - 1),
                  UserTurn(prompts[k])))

\* ATIC: accumulated_context after k prompts holds the rounds that did not
\* fail (atic_provider.py:193 is inside the try)
RECURSIVE accumulated_context(_, _, _)
accumulated_context(prompts, outcomes, k) ==
    IF k = 0 THEN <<>>
    ELSE accumulated_context(prompts, outcomes, k - 1)
         \o (IF outcomes[k].kind = "ok"
             THEN Spoken(<<UserTurn(prompts[k]), AssistantTurn(outcomes[k])>>)
             ELSE <<>>)
atic_context(prompts, outcomes, k) ==
    Append(accumulated_context(prompts, outcomes, k - 1),
           [role |-> "user", content |-> prompts[k]])

\* query_multi_round of provider_id: the conversation it returns, the
\* context each call was given, and whether an exception left the method
query_multi_round(provider_id, prompts, setup_fails, outcomes) ==
    LET n == Len(prompts)
    IN  IF IsATIC(provider_id)
        THEN IF setup_fails
             THEN [conversation |->
                      <<[role |-> "system", content |-> "", error |-> "setup"]>>,
                   contexts |-> <<>>, raised |-> FALSE]
             ELSE [conversation |-> conversation_after(prompts, outcomes, n),
                   contexts |-> [k \in 1..n |-> atic_context(prompts, outcomes, k)],
                   raised |-> FALSE]
        ELSE IF \E k \in 1..n : outcomes[k].kind = "raise"
        THEN [conversation |-> <<>>, contexts |-> <<>>, raised |-> TRUE]
        ELSE [conversation |-> conversation_after(prompts, outcomes, n),
              contexts |-> [k \in 1..n |-> base_context(prompts, outcomes, k)],
              raised |-> FALSE]

\* the non-empty prompt lists of at most n prompts
PromptLists(n) == UNION {[1..k -> {"p1", "p2"}] : k \in 1..n}
MultiRoundCalls ==
    {[op |-> "query_multi_round", provider_id |-> p, prompts |-> ps,
      setup_fails |-> f] :
        p \in ProviderIds, ps \in PromptLists(MaxPrompts),
        f \in BOOLEAN}

MultiRoundInit ==
    /\ call \in {c \in MultiRoundCalls :
                    c.setup_fails => IsATIC(c.provider_id)}
    /\ ret = <<>>
    /\ pc = "call"
    /\ local = <<>> /\ _TEST_REGISTRY = <<>>
    /\ MainIdle

QueryMultiRound ==
    /\ pc = "call"
    /\ \E outcomes \in [1..Len(call.prompts) -> QueryOutcomes(call.provider_id)] :
          LET out == query_multi_round(call.provider_id, call.prompts,
                                       call.setup_fails, outcomes)
          IN  /\ pc' = IF out.raised THEN "raised" ELSE "returned"
              /\ ret' = IF out.raised THEN <<>> ELSE <<out>>
    /\ UNCHANGED <<call, main_vars, unit_vars>>

MultiRoundNext == QueryMultiRound

SpecMultiRound == MultiRoundInit /\ [][MultiRoundNext]_vars

\* --------------------------------------- evaluators/llm_judge: one judge call
\* A judge text as it is written: a "SCORE: <number>" line or none, a
\* standalone digit 0-3 further on in the text or none (NoneInt), and a
\* "REASON:" part or none.
WrittenText(has_score, number, standalone, has_reason) ==
    [kind |-> "text", has_score |-> has_score, number |-> number,
     standalone |-> standalone, has_reason |-> has_reason]

\* the leading decimal digit of n >= 0
RECURSIVE FirstDigit(_)
FirstDigit(n) == IF n < 10 THEN n ELSE FirstDigit(n \div 10)

\* re.search(r"SCORE:\s*(\d)", text): the one digit that follows "SCORE:",
\* none when a sign follows it
score_match_of(text) ==
    IF text.has_score /\ text.number >= 0 THEN FirstDigit(text.number)
    ELSE NoneInt

\* re.findall(r"\b([0-3])\b", text)[0]: the first digit 0-3 that stands
\* alone; the number of the "SCORE:" line is one when it has a single digit
nums_of(text) ==
    IF text.has_score /\ Abs(text.number) <= SCORE_MAX THEN Abs(text.number)
    ELSE text.standalone

\* what _parse_judge_response reads of a written text
read_text(text) ==
    ReplyText(score_match_of(text), nums_of(text), text.has_reason)

WrittenNumbers == (-2)..MaxWritten
WrittenReplies ==
    {[kind |-> "raise"], [kind |-> "error"]}
    \cup {WrittenText(TRUE, n, d, r) :
             n \in WrittenNumbers, d \in {NoneInt} \cup 0..SCORE_MAX, r \in BOOLEAN}
    \cup {WrittenText(FALSE, 0, d, r) :
             d \in {NoneInt} \cup 0..SCORE_MAX, r \in BOOLEAN}

JudgeCallInit ==
    /\ call \in {[op |-> "_call_judge", reply |-> reply] : reply \in WrittenReplies}
    /\ ret = <<>>
    /\ pc = "call"
    /\ local = <<>> /\ _TEST_REGISTRY = <<>>
    /\ MainIdle

\* one _call_judge: the provider raises, answers an error, or answers a text
CallJudge ==
    /\ pc = "call"
    /\ ret' = <<_call_judge(IF call.reply.kind = "text"
                            THEN read_text(call.reply) ELSE call.reply)>>
    /\ pc' = "returned"
    /\ UNCHANGED <<call, main_vars, unit_vars>>

JudgeCallNext == CallJudge

SpecJudgeCall == JudgeCallInit /\ [][JudgeCallNext]_vars

\* --------------------------------------------- analysis/statistics.py
\* cohens_kappa's default num_categories
NUM_CATEGORIES == 4
Categories == 0..(NUM_CATEGORIES - 1)

\* matrix[i][j]: the items rated i by the first judge and j by the second
\* (ratings clamped to the categories)
confusion(ratings_a, ratings_b) ==
    [i \in Categories |-> [j \in Categories |->
        Cardinality({k \in 1..Len(ratings_a) :
                        /\ Max(0, Min(ratings_a[k], NUM_CATEGORIES - 1)) = i
                        /\ Max(0, Min(ratings_b[k], NUM_CATEGORIES - 1)) = j})]]

\* sum(f(i) for i in range(upto)), for f given as a function on Categories
RECURSIVE SumOver(_, _)
SumOver(f, upto) == IF upto = 0 THEN 0 ELSE SumOver(f, upto - 1) + f[upto - 1]

\* sum(matrix[i][i]): the items both judges rated alike
agreements(matrix) ==
    SumOver([i \in Categories |-> matrix[i][i]], NUM_CATEGORIES)

\* the sum over i of row_sum * col_sum; p_expected is this over n * n
chance_products(matrix) ==
    SumOver([i \in Categories |->
                SumOver(matrix[i], NUM_CATEGORIES)
                * SumOver([j \in Categories |-> matrix[j][i]], NUM_CATEGORIES)],
            NUM_CATEGORIES)

\* full agreement by chance counts as no agreement, whatever was observed
cohens_kappa_chance_is_zero(ratings_a, ratings_b) ==
    IF Len(ratings_a) # Len(ratings_b) \/ ratings_a = <<>> THEN Rat(0, 1)
    ELSE
    LET n == Len(ratings_a)
        matrix == confusion(ratings_a, ratings_b)
        observed == agreements(matrix)
        expected == chance_products(matrix)
    IN  IF expected = n * n THEN Rat(0, 1)
        ELSE Round4(Rat(observed * n - expected, n * n - expected))

\* cohens_kappa(ratings_a, ratings_b), with p_observed = observed / n and
\* p_expected = expected / (n * n); the quotient
\* (p_observed - p_expected) / (1 - p_expected) is taken over n * n
cohens_kappa(ratings_a, ratings_b) ==
    IF Len(ratings_a) # Len(ratings_b) \/ ratings_a = <<>> THEN Rat(0, 1)
    ELSE
    LET n == Len(ratings_a)
        matrix == confusion(ratings_a, ratings_b)
        observed == agreements(matrix)
        expected == chance_products(matrix)
    IN  IF expected = n * n
        THEN IF observed = n THEN Rat(1, 1) ELSE Rat(0, 1)
        ELSE Round4(Rat(observed * n - expected, n * n - expected))

\* report.py:223-226: the kappa of every key of the judge-pair table
_judge_agreement_section(pairs_by_key) ==
    [key \in DOMAIN pairs_by_key |->
        LET pairs == pairs_by_key[key]
            ratings_a == [i \in 1..Len(pairs) |-> pairs[i][1]]
            ratings_b == [i \in 1..Len(pairs) |-> pairs[i][2]]
        IN  cohens_kappa(ratings_a, ratings_b)]

\* the rating sequences of at most n ratings 0..3
RatingSeqs(n) == UNION {[1..k -> Categories] : k \in 0..n}
\* two sequences of one length, or the second one rating short
KappaCalls ==
    {[op |-> "cohens_kappa", ratings_a |-> a, ratings_b |-> b] :
        a \in RatingSeqs(MaxRatings), b \in RatingSeqs(MaxRatings)}

KappaInit ==
    /\ call \in {c \in KappaCalls :
                    Len(c.ratings_a) - Len(c.ratings_b) \in {0, 1}}
    /\ ret = <<>>
    /\ pc = "call"
    /\ local = <<>> /\ _TEST_REGISTRY = <<>>
    /\ MainIdle

CohensKappa ==
    /\ pc = "call"
    /\ ret' = <<cohens_kappa(call.ratings_a, call.ratings_b)>>
    /\ pc' = "returned"
    /\ UNCHANGED <<call, main_vars, unit_vars>>

KappaNext == CohensKappa

SpecKappa == KappaInit /\ [][KappaNext]_vars

\* ------------------------------------------------- tests/test_defs.py
\* The registry is a dict test_id -> TestDef: here the sequence of its
\* values in insertion order.  A TestDef is its test_id and its name, which
\* tells two definitions of one identifier apart.
TestDefs == [test_id : {"SC-01", "EC-01"}, name : {"first", "second"}]
RegisteredIds(registry) == {registry[i].test_id : i \in 1..Len(registry)}

\* the new definition takes the place of the one registered
register_test_overwriting(registry, test) ==
    IF test.test_id \in RegisteredIds(registry)
    THEN [registry |-> [i \in 1..Len(registry) |->
                           IF registry[i].test_id = test.test_id
                           THEN test ELSE registry[i]],
          raised |-> FALSE]
    ELSE [registry |-> Append(registry, test), raised |-> FALSE]

\* register_test: the registry after the call, and whether it raised
\* ValueError
register_test(registry, test) ==
    IF test.test_id \in RegisteredIds(registry)
    THEN [registry |-> registry, raised |-> TRUE]
    ELSE [registry |-> Append(registry, test), raised |-> FALSE]

\* register_tests: register_test on each test in turn, up to the first that
\* raises; made is how many register_test calls were made
RECURSIVE register_tests(_, _)
register_tests(registry, tests_) ==
    IF tests_ = <<>> THEN [registry |-> registry, raised |-> FALSE, made |-> 0]
    ELSE LET head == register_test(registry, Head(tests_))
         IN  IF head.raised
             THEN [registry |-> head.registry, raised |-> TRUE, made |-> 1]
             ELSE LET rest == register_tests(head.registry, Tail(tests_))
                  IN  [registry |-> rest.registry, raised |-> rest.raised,
                       made |-> rest.made + 1]

\* the lists a test module passes to register_tests
TestLists == UNION {[1..k -> TestDefs] : k \in 0..2}

\* the registry is empty when test_defs is imported; local is the list of
\* the definitions register_test was called with, in order
CatalogInit ==
    /\ call = <<>>
    /\ ret = <<>>
    /\ pc = "ready"
    /\ local = <<>> /\ _TEST_REGISTRY = <<>>
    /\ MainIdle

RegisterTest ==
    /\ Len(local) < MaxRegistrations
    /\ \E test \in TestDefs :
          LET out == register_test(_TEST_REGISTRY, test)
          IN  /\ call' = [op |-> "register_test", test |-> test]
              /\ _TEST_REGISTRY' = out.registry
              /\ pc' = IF out.raised THEN "raised" ELSE "returned"
              /\ local' = Append(local, test)
    /\ UNCHANGED <<ret, main_vars>>

RegisterTests ==
    /\ \E tests_ \in TestLists :
          LET out == register_tests(_TEST_REGISTRY, tests_)
          IN  /\ Len(local) + out.made <= MaxRegistrations
              /\ call' = [op |-> "register_tests", tests |-> tests_]
              /\ _TEST_REGISTRY' = out.registry
              /\ pc' = IF out.raised THEN "raised" ELSE "returned"
              /\ local' = local \o SubSeq(tests_, 1, out.made)
    /\ UNCHANGED <<ret, main_vars>>

CatalogNext == RegisterTest \/ RegisterTests

SpecCatalog == CatalogInit /\ [][CatalogNext]_vars

\* ------------------------------------------------- one evaluate_judge call
Returned == pc = "returned"
Ret == ret[1]
KeySet(keys) == {keys[i] : i \in 1..Len(keys)}
\* the available providers other than the evaluated one
OtherProviders == KeySet(call.available_providers) \ {call.evaluated_provider_id}
\* those that are neither the evaluated provider nor the primary judge
ThirdProviders == OtherProviders \ {Ret.audit.primary_judge}
JudgeSelected == Returned /\ Ret.audit.primary_judge # "none"
\* |primary_score/3 - (structural + reference)/2| > 0.5, over the common
\* denominator 6 * d_s * d_r
Diverges ==
    LET s == call.structural_normalized
        r == call.reference_normalized
        p == Ret.audit.primary_score
    IN  Abs(2 * p * s.d * r.d - 3 * (s.n * r.d + r.n * s.d)) > 3 * s.d * r.d
One == Rat(GridSteps, GridSteps)
ResolutionLabels ==
    {"primary", "primary (tiebreak confirmed)",
     "average (tiebreak sided with layers)", "average (no consensus)"}

\* C1: judge selection never returns the evaluated provider's own id, for
\* every evaluated provider and every available set; when the set holds no
\* other provider, no judge is selected and evaluate_judge names the judge
\* "none"; otherwise the judge is one of the other available providers.
C1_JudgeNeverSelf ==
    /\ \A e \in ProviderIds : _select_judge(e, call.available_providers) # e
    /\ Returned =>
        /\ Ret.audit.primary_judge # call.evaluated_provider_id
        /\ Ret.result.judge_provider_id # call.evaluated_provider_id
        /\ OtherProviders = {} =>
              /\ _select_judge(call.evaluated_provider_id,
                               call.available_providers) = None
              /\ Ret.audit.primary_judge = "none"
              /\ Ret.result.judge_provider_id = "none"
        /\ OtherProviders # {} => Ret.audit.primary_judge \in OtherProviders

C1_Witness ==
    /\ Returned
    /\ call.available_providers = <<call.evaluated_provider_id>>
    /\ Ret.audit.primary_judge = "none"

\* C3 as stated: with a primary judge selected, a tiebreak is invoked if and
\* only if tiebreak is enabled and the divergence exceeds 0.5, for every
\* available set.
C3_Original ==
    JudgeSelected =>
        (Ret.result.tiebreak_used <=> (call.enable_tiebreak /\ Diverges))

\* C3 amended: with a primary judge selected, a tiebreak is invoked if and
\* only if tiebreak is enabled, the divergence exceeds 0.5 and some available
\* provider is neither the evaluated one nor the primary judge.
C3_TiebreakIff ==
    JudgeSelected =>
        (Ret.result.tiebreak_used
            <=> (call.enable_tiebreak /\ Diverges /\ ThirdProviders # {}))

\* divergence exactly 0.5 with a third provider at hand: no tiebreak
C3_Witness ==
    /\ JudgeSelected
    /\ call.enable_tiebreak
    /\ ThirdProviders # {}
    /\ Ret.audit.primary_score = 0
    /\ RatEq(RatAdd(call.structural_normalized, call.reference_normalized), One)
    /\ ~Ret.result.tiebreak_used

\* C4: with tiebreak disabled no second judge is invoked, whatever the
\* primary score and the layer scores: tiebreak_used is false, the audit's
\* tiebreak_judge and tiebreak_score stay unset, final_source stays
\* "primary" and the final raw score is the primary score.
C4_DisabledNoTiebreak ==
    (JudgeSelected /\ ~call.enable_tiebreak) =>
        /\ ~Ret.result.tiebreak_used
        /\ Ret.audit.tiebreak_judge = None
        /\ Ret.audit.tiebreak_score = NoneInt
        /\ Ret.audit.final_source = "primary"
        /\ Ret.result.score_raw = Ret.audit.primary_score
        /\ Len(Ret.calls) = 1

C4_Witness ==
    /\ JudgeSelected
    /\ ~call.enable_tiebreak
    /\ Diverges
    /\ ThirdProviders # {}
    /\ ~Ret.result.tiebreak_used

\* C5: a selected tiebreak judge is an available provider distinct from the
\* evaluated provider and from the primary judge, and it is the static
\* tiebreak table's entry whenever that entry is available and distinct from
\* both; this for every evaluated provider, primary judge and available set.
C5_TiebreakJudgeDistinct ==
    /\ \A e \in ProviderIds, pj \in ProviderIds :
          LET t == _select_tiebreak_judge(e, pj, call.available_providers)
              entry == TIEBREAK_JUDGE[e]
          IN  /\ t # None =>
                    /\ t \in KeySet(call.available_providers)
                    /\ t # e
                    /\ t # pj
              /\ (entry \in KeySet(call.available_providers) \ {e, pj})
                    => t = entry
    /\ (Returned /\ Ret.result.tiebreak_used) =>
          /\ Ret.audit.tiebreak_judge \in ThirdProviders
          /\ (TIEBREAK_JUDGE[call.evaluated_provider_id] \in ThirdProviders)
                => Ret.audit.tiebreak_judge
                      = TIEBREAK_JUDGE[call.evaluated_provider_id]

\* the table entry is the primary judge, so another provider breaks the tie
C5_Witness ==
    /\ Returned
    /\ Ret.result.tiebreak_used
    /\ TIEBREAK_JUDGE[call.evaluated_provider_id] = Ret.audit.primary_judge
    /\ Ret.audit.tiebreak_judge \in ThirdProviders

\* C6: resolution case 1 comes first: whenever a tiebreak was invoked and
\* |tiebreak_score - primary_score| <= 1, the final raw score is the primary
\* score and the label is "primary (tiebreak confirmed)", whatever the
\* structural and reference scores.
C6_TiebreakConfirms ==
    (Returned /\ Ret.result.tiebreak_used
       /\ Abs(Ret.audit.tiebreak_score - Ret.audit.primary_score) <= 1) =>
        /\ Ret.result.score_raw = Ret.audit.primary_score
        /\ Ret.audit.final_source = "primary (tiebreak confirmed)"

\* the layer equivalent computed as the claim gives it: round(avg * 3)
LayerEquivalent ==
    PyRound(Rat(3 * (call.structural_normalized.n * call.reference_normalized.d
                     + call.reference_normalized.n * call.structural_normalized.d),
                2 * call.structural_normalized.d * call.reference_normalized.d))

\* the tiebreak agrees with the primary and with the layers at once
C6_Witness ==
    /\ Returned
    /\ Ret.result.tiebreak_used
    /\ Abs(Ret.audit.tiebreak_score - Ret.audit.primary_score) <= 1
    /\ Abs(Ret.audit.tiebreak_score - LayerEquivalent) <= 1

\* C7: resolution cases 2 and 3: whenever a tiebreak was invoked and
\* |tiebreak_score - primary_score| > 1, the final raw score is
\* round((primary + tiebreak)/2) (1 for 0 and 2, 2 for 0 and 3, 2 for 1 and
\* 3) and the label is "average (tiebreak sided with layers)" exactly when
\* |tiebreak_score - round(avg*3)| <= 1, otherwise "average (no consensus)";
\* primary 0, structural = reference = 1.0, tiebreak 3 gives final 2 with the
\* "sided with layers" label.
C7_TiebreakAverages ==
    (Returned /\ Ret.result.tiebreak_used
       /\ Abs(Ret.audit.tiebreak_score - Ret.audit.primary_score) > 1) =>
        LET sum == Ret.audit.primary_score + Ret.audit.tiebreak_score
            sided == Abs(Ret.audit.tiebreak_score - LayerEquivalent) <= 1
        IN  /\ Ret.result.score_raw = (IF sum = 3 THEN 2 ELSE sum \div 2)
            /\ sided => Ret.audit.final_source
                            = "average (tiebreak sided with layers)"
            /\ ~sided => Ret.audit.final_source = "average (no consensus)"
            /\ (/\ Ret.audit.primary_score = 0
                /\ Ret.audit.tiebreak_score = 3
                /\ RatEq(call.structural_normalized, One)
                /\ RatEq(call.reference_normalized, One)) =>
                  /\ Ret.result.score_raw = 2
                  /\ Ret.audit.final_source
                        = "average (tiebreak sided with layers)"

C7_Witness ==
    /\ Returned
    /\ Ret.result.tiebreak_used
    /\ Ret.audit.primary_score = 0
    /\ Ret.audit.tiebreak_score = 3
    /\ RatEq(call.structural_normalized, One)
    /\ RatEq(call.reference_normalized, One)
    /\ Ret.result.score_raw = 2

\* C8: in every returned (JudgeResult, JudgeAudit) pair the audit's
\* tiebreak_judge is set if and only if a tiebreak was invoked, final_source
\* is one of the four resolution labels, and it is "primary" exactly when no
\* tiebreak was invoked.
C8_AuditInvariant ==
    Returned =>
        /\ (Ret.audit.tiebreak_judge # None) <=> Ret.result.tiebreak_used
        /\ Ret.result.tiebreak_used <=> (Len(Ret.calls) = 2)
        /\ Ret.audit.final_source \in ResolutionLabels
        /\ (Ret.audit.final_source = "primary") <=> ~Ret.result.tiebreak_used

C8_Witness ==
    /\ Returned
    /\ Ret.result.tiebreak_used
    /\ Ret.audit.tiebreak_judge # None
    /\ Ret.audit.final_source \in ResolutionLabels \ {"primary"}
    /\ Len(Ret.calls) = 2

\* ------------------------------------------------------ the orchestrator
RecordIxs == 1..Len(all_evaluations)
IsErrorRecord(ev) == Get(ev, "error", FALSE)
IsJudged(ev) == "judge_audit" \in DOMAIN ev
\* the provider execution of the record ended in an execution error: some
\* turn it returned has its error set
ExecutionFailed(ev) == \E k \in 1..Len(ev.rounds) : ev.rounds[k].error
IsZero(q) == q.n = 0

\* C2: no record of the audit log has a judge (judge_provider or the
\* audit's primary_judge or tiebreak_judge) equal to the record's model,
\* with or without provider errors, and after a complete run the audit's
\* self_evaluations counter is 0.
C2_NoSelfEvaluation ==
    /\ \A i \in RecordIxs :
          LET ev == all_evaluations[i]
          IN  /\ Get(ev, "judge_provider", "") # ev.model
              /\ IsJudged(ev) =>
                    /\ ev.judge_audit.primary_judge # ev.model
                    /\ ev.judge_audit.tiebreak_judge # ev.model
              /\ \A k \in 1..Len(queries[i]) : queries[i][k] # ev.model
    /\ pc = "done" =>
          /\ audit_data[1].self_evaluations = 0
          /\ audit_data[1].total_evaluations = Len(all_evaluations)

C2_Witness ==
    /\ pc = "done"
    /\ \E i \in RecordIxs : IsErrorRecord(all_evaluations[i])
    /\ \E i \in RecordIxs :
          /\ IsJudged(all_evaluations[i])
          /\ all_evaluations[i].tiebreak_used
          /\ all_evaluations[i].judge_audit.tiebreak_judge \in ProviderIds
    /\ audit_data[1].self_evaluations = 0

\* a recorded run of a provider that has no other provider beside it
NoJudgeRun(ev) == Len(providers) = 1 /\ ~IsErrorRecord(ev)

C9_Result ==
    \A i \in RecordIxs :
        LET ev == all_evaluations[i]
        IN  NoJudgeRun(ev) =>
              /\ ev.judge_raw = 0
              /\ IsZero(ev.judge_score)
              /\ ev.judge_reason = "No judge available"
              /\ ev.judge_provider = "none"
              /\ ~ev.tiebreak_used
              /\ ev.judge_audit.primary_judge = "none"
              /\ ev.judge_audit.primary_score = 0
              /\ ev.judge_audit.tiebreak_judge = None
              /\ queries[i] = <<>>

C9_Continues ==
    (/\ pc = "loop"
     /\ Len(all_evaluations') = Len(all_evaluations) + 1
     /\ NoJudgeRun(all_evaluations'[Len(all_evaluations')]))
        => pc' \in {"loop", "stats"}

\* C9: when no provider other than the evaluated one is available,
\* evaluate_judge fails closed without querying any provider: raw score 0,
\* normalized 0.0, reason "No judge available", tiebreak_used false, audit
\* primary_judge "none" with primary_score 0; and the step that records such
\* a run leaves the orchestrator in its loop or at its end, never aborted.
C9_NoJudgeFailsClosed == [](C9_Result) /\ [][C9_Continues]_vars

C9_Witness ==
    /\ pc = "done"
    /\ Len(all_evaluations) >= 2
    /\ NoJudgeRun(all_evaluations[1])
    /\ all_evaluations[1].judge_audit.primary_judge = "none"

\* C10 as stated: whenever the provider execution of a recorded run ended in
\* an execution error, the result is flagged as an error, its structural,
\* reference, judge and final scores are 0 and no judge was queried for it.
C10_ErrorDetected ==
    \A i \in RecordIxs :
        LET ev == all_evaluations[i]
        IN  ExecutionFailed(ev) =>
              /\ IsErrorRecord(ev)
              /\ IsZero(ev.structural_score)
              /\ IsZero(ev.reference_score)
              /\ IsZero(ev.judge_score)
              /\ IsZero(ev.final_score)
              /\ ~IsJudged(ev)
              /\ queries[i] = <<>>

\* the execution errors the orchestrator does detect: an assistant turn
\* carries the error
C10_Witness ==
    \E i \in RecordIxs :
        /\ ExecutionFailed(all_evaluations[i])
        /\ IsErrorRecord(all_evaluations[i])
        /\ Len(all_evaluations) > i

\* the records of the log made for provider p, test t and seed k
RunsOf(p, t, k) ==
    {i \in RecordIxs : /\ all_evaluations[i].model = p
                       /\ all_evaluations[i].test_id = t
                       /\ all_evaluations[i].seed = k}
LoopFinished == pc \in {"stats", "done"}
LoopEntered == pc \in {"loop", "stats", "done", "crashed"}
Cell(p, t) == Get(Get(score_matrix, p, <<>>), t, <<>>)

\* C11: once the loop has finished, every (provider, test) cell of the score
\* matrix holds exactly `seeds` final scores, the k-th being the final score
\* of the one run made for that provider and test under seed k-1, whatever
\* runs ended in provider errors or without a judge; while the loop runs no
\* cell holds more entries than seeds started (seed + 1), and the matrix has
\* no cell outside providers x tests.
C11_CellsHoldSeeds ==
    /\ LoopFinished =>
          \A i \in 1..Len(providers), j \in 1..Len(tests) :
             LET p == providers[i]
                 t == tests[j].test_id
             IN  /\ p \in DOMAIN score_matrix
                 /\ t \in DOMAIN score_matrix[p]
                 /\ Len(Cell(p, t)) = args_seeds
                 /\ \A k \in 1..args_seeds :
                       /\ Cardinality(RunsOf(p, t, k - 1)) = 1
                       /\ \A r \in RunsOf(p, t, k - 1) :
                             Cell(p, t)[k] = all_evaluations[r].final_score
    /\ LoopEntered =>
          \A p \in DOMAIN score_matrix :
             /\ p \in KeySet(providers)
             /\ \A t \in DOMAIN score_matrix[p] :
                   /\ \E j \in 1..Len(tests) : tests[j].test_id = t
                   /\ Len(score_matrix[p][t]) <= seed + 1

\* a finished run of two seeds or more with an error run and a run without
\* a judge in it
C11_Witness ==
    /\ pc = "done"
    /\ args_seeds >= 2
    /\ \E i \in RecordIxs : IsErrorRecord(all_evaluations[i])
    /\ \E i \in RecordIxs : NoJudgeRun(all_evaluations[i])

\* C12: a benchmark run always completes and produces its results snapshot:
\* from every start configuration (any available providers, any category
\* filter, any provider failures) main eventually writes the results and
\* audit files.
C12_RunCompletes == <>(pc = "done")

\* what the code does guarantee: main stops, by writing its files, by
\* sys.exit(1) before the loop, or by the exception of a provider call
MainStops == <>(pc \in {"done", "exit", "crashed"})

\* a provider query raised after a run had already been recorded: main
\* stops there and writes nothing
C12_Witness == pc = "crashed" /\ Len(all_evaluations) > 0

\* x is a whole number of ten-thousandths
FourDecimals(x) == (x.n * 10000) % x.d = 0
\* |x - y| <= 1/20000
WithinHalfTenThousandth(x, y) ==
    LET diff == RatAbs(RatSub(x, y)) IN diff.n <= diff.d \div 20000

\* C14: every record of the log that is not an error record has a final
\* score equal to (structural + reference + 2*judge)/4 of its own three
\* layer scores rounded to 4 decimals: it has at most four decimals, lies
\* within half a ten-thousandth of the exact blend, and lies in [0,1].
C14_FinalScoreBlend ==
    \A i \in RecordIxs :
       LET ev == all_evaluations[i]
           exact == RatDiv(RatAdd(RatAdd(ev.structural_score, ev.reference_score),
                                  RatAdd(ev.judge_score, ev.judge_score)), 4)
       IN  ~IsErrorRecord(ev) =>
             /\ FourDecimals(ev.final_score)
             /\ WithinHalfTenThousandth(ev.final_score, exact)
             /\ RatLE(Rat(0, 1), ev.final_score)
             /\ RatLE(ev.final_score, Rat(1, 1))

\* a judged run whose blend is not a whole number of ten-thousandths (the
\* judge layer at 2/3 after a tiebreak average)
C14_Witness ==
    \E i \in RecordIxs :
       LET ev == all_evaluations[i]
       IN  /\ ~IsErrorRecord(ev)
           /\ ev.tiebreak_used
           /\ RatEq(ev.judge_score, Rat(2, 3))
           /\ ~FourDecimals(weighted_final(ev.structural_score,
                                            ev.reference_score, ev.judge_score))

\* what arbitration decides: the final scores, the tiebreak flag, the judge
\* identities and the resolution label
Decision(out) ==
    [score_raw |-> out.result.score_raw,
     normalized |-> out.result.normalized,
     tiebreak_used |-> out.result.tiebreak_used,
     judge_provider_id |-> out.result.judge_provider_id,
     primary_judge |-> out.audit.primary_judge,
     tiebreak_judge |-> out.audit.tiebreak_judge,
     final_source |-> out.audit.final_source]
\* the replies from which _call_judge extracts the score
RepliesScoring(score) == {reply \in JudgeReplies : _call_judge(reply)[1] = score}

\* one fixed reply among those scoring `score`
ReferenceReply(score) == CHOOSE reply \in RepliesScoring(score) : TRUE

RateLimitSignal(outcome) ==
    \/ outcome.kind = "RateLimitError"
    \/ outcome.status \in {429, 529}
    \/ outcome.text \in {"429", "RESOURCE_EXHAUSTED", "quota"}
QueryRunning == pc \in {"attempt", "returned", "raised"}

\* C13: a query of Claude, GPT or Gemini makes at most MAX_RETRIES = 3 API
\* attempts; every attempt but the last one made ended in a rate-limit
\* signal (it retries on nothing else); an attempt that failed otherwise is
\* the last one and the query has returned a response whose error is set;
\* after MAX_RETRIES failed attempts the query has returned a response
\* whose error is set; a response to a successful attempt has no error; and
\* the query never raises once it has made an attempt.
C13_BoundedRetries ==
    QueryRunning =>
      LET made == local.outcomes
          n == Len(made)
      IN  /\ n <= MAX_RETRIES
          /\ \A i \in 1..n :
                /\ i < n => RateLimitSignal(made[i])
                /\ (made[i].kind # "ok" /\ ~RateLimitSignal(made[i])) =>
                      /\ i = n
                      /\ pc = "returned"
                      /\ ret[1].error # None
                /\ made[i].kind = "ok" =>
                      i = n /\ pc = "returned" /\ ret[1].error = None
          /\ n = MAX_RETRIES => pc = "returned"
          /\ (pc = "returned" /\ made[n].kind # "ok") => ret[1].error # None
          /\ pc = "raised" => n = 0

\* the third attempt in a row is rate limited and the query returns its error
C13_Witness ==
    /\ pc = "returned"
    /\ Len(local.outcomes) = MAX_RETRIES
    /\ \A i \in 1..MAX_RETRIES : RateLimitSignal(local.outcomes[i])
    /\ ret[1].error = "exhausted"

\* -------------------------------------------- one evaluate_structural call
\* twice the weighted sum of the scores, and the sum of the weights, of the
\* first k checks of the call
RECURSIVE HalfPoints(_)
HalfPoints(k) ==
    IF k = 0 THEN 0
    ELSE HalfPoints(k - 1)
         + ((2 * call.checks[k].score.n) \div call.checks[k].score.d)
           * call.checks[k].weight
RECURSIVE WeightSum(_)
WeightSum(k) == IF k = 0 THEN 0 ELSE WeightSum(k - 1) + call.checks[k].weight

\* C16: for every non-empty list of checks, whatever the scores (0.0, 0.5,
\* 1.0) and the weights (zero and negative ones, a total <= 0 included),
\* evaluate_structural's normalized score lies in [0,1], and when the total
\* weight is positive it is sum(score_i*weight_i)/sum(weight_i) clamped to
\* [0,1]; an empty list gives exactly 1.0.
C16_StructuralBounds ==
    Returned =>
      LET normalized == ret[1].normalized
          n == Len(call.checks)
          points == HalfPoints(n)
          total == WeightSum(n)
      IN  /\ RatLE(Rat(0, 1), normalized) /\ RatLE(normalized, Rat(1, 1))
          /\ n = 0 => RatEq(normalized, Rat(1, 1))
          /\ (n > 0 /\ total > 0) =>
                IF points < 0 THEN RatEq(normalized, Rat(0, 1))
                ELSE IF points > 2 * total THEN RatEq(normalized, Rat(1, 1))
                ELSE RatEq(normalized, Rat(points, 2 * total))

\* a negative weight lifts the weighted mean above 1, and it is clamped
C16_Witness ==
    /\ Returned
    /\ \E k \in 1..Len(call.checks) : call.checks[k].weight < 0
    /\ WeightSum(Len(call.checks)) > 0
    /\ HalfPoints(Len(call.checks)) > 2 * WeightSum(Len(call.checks))
    /\ RatEq(ret[1].normalized, Rat(1, 1))

\* --------------------------------------------- one evaluate_reference call
NoSubCheckApplies == \A c \in SubCheckNames : ~call.test[c]
\* some assistant turn of the call's conversation has text
HasResponseText ==
    \E i \in 1..Len(call.rounds) :
        call.rounds[i].role = "assistant" /\ call.rounds[i].content = "text"

\* C17 as stated: for a test to which none of the five sub-checks applies,
\* evaluate_reference returns 1.0 for every conversation, whatever the
\* response text.
C17_Original ==
    (Returned /\ NoSubCheckApplies) => RatEq(ret[1].normalized, Rat(1, 1))

\* C17: for a test to which none of the five sub-checks applies,
\* evaluate_reference returns 1.0 for every conversation in which some
\* assistant turn has non-blank text, and 0.0 for a conversation whose
\* assistant text is empty or blank.
C17_NoSubchecksPerfect ==
    (Returned /\ NoSubCheckApplies) =>
        IF HasResponseText THEN RatEq(ret[1].normalized, Rat(1, 1))
        ELSE RatEq(ret[1].normalized, Rat(0, 1))

\* no sub-check applies and the conversation has an empty reply next to one
\* with text
C17_Witness ==
    /\ Returned
    /\ NoSubCheckApplies
    /\ HasResponseText
    /\ \E i \in 1..Len(call.rounds) :
          call.rounds[i].role = "assistant" /\ call.rounds[i].content = ""
    /\ RatEq(ret[1].normalized, Rat(1, 1))

\* -------------------------------------------------------- the test catalog
\* the first definition register_test was called with under identifier id
FirstRegistered(id) ==
    local[CHOOSE i \in 1..Len(local) :
             /\ local[i].test_id = id
             /\ \A j \in 1..(i - 1) : local[j].test_id # id]

C18_CatalogKeepsFirst ==
    /\ \A i, j \in 1..Len(_TEST_REGISTRY) :
          _TEST_REGISTRY[i].test_id = _TEST_REGISTRY[j].test_id => i = j
    /\ RegisteredIds(_TEST_REGISTRY) = {local[i].test_id : i \in 1..Len(local)}
    /\ \A i \in 1..Len(_TEST_REGISTRY) :
          _TEST_REGISTRY[i] = FirstRegistered(_TEST_REGISTRY[i].test_id)

C18_DuplicateFails ==
    (/\ call' # <<>>
     /\ call'.op = "register_test"
     /\ call'.test.test_id \in RegisteredIds(_TEST_REGISTRY))
        => (pc' = "raised" /\ _TEST_REGISTRY' = _TEST_REGISTRY)

\* C18: register_test with an identifier that is already registered fails
\* with an error and leaves the catalog unchanged; after any sequence of
\* register_test and register_tests calls every identifier of the catalog
\* maps to exactly one definition, the first one registered under it.
C18_DuplicateRejected ==
    [](C18_CatalogKeepsFirst) /\ [][C18_DuplicateFails]_vars

\* a second definition of a registered identifier was refused
C18_Witness ==
    /\ pc = "raised"
    /\ call.op = "register_test"
    /\ \E i \in 1..Len(_TEST_REGISTRY) :
          /\ _TEST_REGISTRY[i].test_id = call.test.test_id
          /\ _TEST_REGISTRY[i] # call.test

\* --------------------------------------------- one query_multi_round call
\* the returned conversation has 2n turns, user and assistant in turn, the
\* k-th user turn carrying the k-th prompt, and call k was given all the
\* turns before its answer
TurnOrderKept ==
    LET conversation == ret[1].conversation
        contexts == ret[1].contexts
        n == Len(call.prompts)
    IN  /\ Len(conversation) = 2 * n
        /\ Len(contexts) = n
        /\ \A k \in 1..n :
              /\ conversation[2 * k - 1].role = "user"
              /\ conversation[2 * k - 1].content = call.prompts[k]
              /\ conversation[2 * k].role = "assistant"
              /\ contexts[k] = Spoken(SubSeq(conversation, 1, 2 * k - 1))

\* C19: query_multi_round, given n prompts, returns exactly 2n turns
\* alternating user/assistant, the k-th user turn carrying the k-th prompt,
\* and the call for prompt k carries all earlier user and assistant turns
\* as context; for the base implementation and the ATIC override, also when
\* some call fails.
C19_TurnOrder == Returned => TurnOrderKept

\* the base implementation keeps the turn order, failed calls included
BaseTurnOrder == (Returned /\ ~IsATIC(call.provider_id)) => TurnOrderKept

\* ATIC returned a conversation in which a call failed and a later call was
\* made without that round in its context
C19_Witness ==
    /\ Returned
    /\ IsATIC(call.provider_id)
    /\ Len(ret[1].conversation) = 2 * Len(call.prompts)
    /\ \E k \in 1..Len(call.prompts) :
          /\ ret[1].conversation[2 * k].error # None
          /\ k < Len(call.prompts)
    /\ ~TurnOrderKept

\* ------------------------------------------------- one cohens_kappa call
\* the kappa of the call that returned
Kappa == Ret
\* both judges gave the same ratings
IdenticalRatings == call.op = "cohens_kappa" /\ call.ratings_a = call.ratings_b

\* C20 as stated: the kappa of two identical rating sequences is 1.0,
\* whatever their length
C20_Original == (Returned /\ IdenticalRatings) => RatEq(Kappa, Rat(1, 1))

\* C20: the kappa of two identical rating sequences is 1.0 when the
\* sequences hold at least one rating, also when every rating falls in one
\* category, and 0.0 when they are empty
C20_IdenticalKappa ==
    (Returned /\ IdenticalRatings) =>
        IF call.ratings_a = <<>> THEN RatEq(Kappa, Rat(0, 1))
        ELSE RatEq(Kappa, Rat(1, 1))

\* identical sequences of several ratings, all in one category, scored 1.0
C20_Witness ==
    /\ Returned /\ IdenticalRatings
    /\ Len(call.ratings_a) >= 2
    /\ \A k \in 1..Len(call.ratings_a) : call.ratings_a[k] = call.ratings_a[1]
    /\ RatEq(Kappa, Rat(1, 1))

\* ------------------------------------------------------- judge selection
\* the priority order of the judge selected for e among the providers av:
\* the rotation judge, else the fallback judge, else another provider
FollowsPriority(e, av, judge) ==
    LET others == KeySet(av) \ {e}
    IN  IF JUDGE_ROTATION[e] \in others THEN judge = JUDGE_ROTATION[e]
        ELSE IF JUDGE_FALLBACK[e] \in others THEN judge = JUDGE_FALLBACK[e]
        ELSE IF others # {} THEN judge \in others
        ELSE judge = None

\* C21: judge selection follows a fixed priority, for every evaluated
\* provider and every available set: the rotation-table judge whenever it is
\* available; otherwise the fallback-table judge whenever that one is
\* available; otherwise some other available provider; and the primary
\* judge evaluate_judge names in its audit is the one so selected.
C21_SelectionPriority ==
    /\ \A e \in ProviderIds :
          FollowsPriority(e, call.available_providers,
                          _select_judge(e, call.available_providers))
    /\ Returned =>
          FollowsPriority(call.evaluated_provider_id, call.available_providers,
                          IF Ret.audit.primary_judge = "none" THEN None
                          ELSE Ret.audit.primary_judge)

\* the rotation judge is not available and the fallback judge is, next to a
\* third provider that comes earlier in the dict
C21_Witness ==
    /\ Returned
    /\ JUDGE_ROTATION[call.evaluated_provider_id] \notin OtherProviders
    /\ JUDGE_FALLBACK[call.evaluated_provider_id] \in OtherProviders
    /\ Ret.audit.primary_judge = JUDGE_FALLBACK[call.evaluated_provider_id]
    /\ Len(call.available_providers) = 3
    /\ call.available_providers[1] \in ThirdProviders

\* --------------------------------------------------- the judge-layer score
\* C22: on every path of evaluate_judge (no judge available, primary only,
\* each tiebreak resolution) the returned raw score is an integer in 0..3
\* and the normalized score is raw/3, hence in [0,1]; without a tiebreak the
\* raw score is the primary score, and with one it lies between the primary
\* and the tiebreak score.
C22_ScoreNormalized ==
    Returned =>
      LET raw == Ret.result.score_raw
          p == Ret.audit.primary_score
          t == Ret.audit.tiebreak_score
      IN  /\ raw \in 0..SCORE_MAX
          /\ Ret.result.normalized.d > 0
          /\ RatEq(Ret.result.normalized, Rat(raw, 3))
          /\ RatLE(Rat(0, 1), Ret.result.normalized)
          /\ RatLE(Ret.result.normalized, Rat(1, 1))
          /\ p \in 0..SCORE_MAX
          /\ ~Ret.result.tiebreak_used => raw = p
          /\ Ret.result.tiebreak_used =>
                /\ t \in 0..SCORE_MAX
                /\ Min(p, t) <= raw
                /\ raw <= Max(p, t)

\* a tiebreak score 3 was averaged with a primary score 0, and the final
\* score 2 lies strictly between the two
C22_Witness ==
    /\ Returned
    /\ Ret.result.tiebreak_used
    /\ Ret.audit.primary_score = 0
    /\ Ret.audit.tiebreak_score = SCORE_MAX
    /\ Ret.result.score_raw = 2
    /\ Ret.audit.final_source = "average (tiebreak sided with layers)"

\* ------------------------------------------------------- the run matrix
\* the k-th (seed, test, provider) combination in lexicographic order, for
\* k from 1
Combination(k) ==
    [seed |-> (k - 1) \div (Len(tests) * Len(providers)),
     test_id |-> tests[(((k - 1) \div Len(providers)) % Len(tests)) + 1].test_id,
     model |-> providers[((k - 1) % Len(providers)) + 1]]
\* the combination the loop is at
LoopPosition ==
    seed * Len(tests) * Len(providers) + (test_ix - 1) * Len(providers) + provider_ix

C23_LogInOrder ==
    /\ Len(queries) = Len(all_evaluations)
    /\ \A k \in RecordIxs :
          /\ k <= total_runs
          /\ all_evaluations[k].seed = Combination(k).seed
          /\ all_evaluations[k].test_id = Combination(k).test_id
          /\ all_evaluations[k].model = Combination(k).model
    /\ pc = "loop" => LoopPosition = Len(all_evaluations) + 1
    /\ LoopFinished => Len(all_evaluations) = total_runs

C23_OneRunAtATime ==
    all_evaluations' # all_evaluations =>
        /\ pc = "loop"
        /\ Len(all_evaluations') = Len(all_evaluations) + 1
        /\ SubSeq(all_evaluations', 1, Len(all_evaluations)) = all_evaluations
        /\ all_evaluations'[Len(all_evaluations')].model = providers[provider_ix]
        /\ queries' = Append(queries, queries'[Len(queries')])

\* C23: the orchestrator executes the run matrix sequentially in nested
\* order seed, then test, then provider: the k-th record of the audit log
\* is the k-th (seed, test, provider) combination in lexicographic order;
\* every step that changes the log appends the one finished record of the
\* combination the loop is at, together with the judges queried for it, and
\* changes no earlier record; and once the loop has finished the log holds
\* exactly tests x providers x seeds records.
C23_SequentialOrder == [](C23_LogInOrder) /\ [][C23_OneRunAtATime]_vars

\* a finished run over two seeds, two tests and two providers, the first
\* and the last run judged differently
C23_Witness ==
    /\ pc = "done"
    /\ args_seeds >= 2 /\ Len(tests) >= 2 /\ Len(providers) >= 2
    /\ Len(all_evaluations) = total_runs
    /\ all_evaluations[1].judge_raw # all_evaluations[total_runs].judge_raw

\* ---------------------------------------------------- the three layers
\* |p/3 - (s + r)/2| > 0.5 for a primary score p and layer scores s and r,
\* over the common denominator 6 * d_s * d_r
DivergesFrom(p, s, r) ==
    Abs(2 * p * s.d * r.d - 3 * (s.n * r.d + r.n * s.d)) > 3 * s.d * r.d
\* the providers that can break a tie of the run: neither its model nor its
\* primary judge
ThirdOf(ev) == KeySet(providers) \ {ev.model, ev.judge_audit.primary_judge}

\* C24: in every run that is not an error run the evaluators are invoked in
\* the order structural, reference, judge, and evaluate_judge receives the
\* structural and reference scores recorded for that same run; so a tiebreak
\* is used in a judged run exactly when tiebreak is enabled, the primary
\* score diverges by more than 0.5 from the mean of that run's own two
\* layer scores and a third provider is available.  An error run invokes no
\* evaluator.
C24_LayersInOrder ==
    /\ Len(invoked) = Len(all_evaluations)
    /\ \A i \in RecordIxs :
          LET ev == all_evaluations[i]
          IN  IF IsErrorRecord(ev) THEN invoked[i] = <<>>
              ELSE /\ Len(invoked[i]) = 3
                   /\ invoked[i][1].layer = "structural"
                   /\ invoked[i][2].layer = "reference"
                   /\ invoked[i][3].layer = "judge"
                   /\ RatEq(invoked[i][3].structural_normalized, ev.structural_score)
                   /\ RatEq(invoked[i][3].reference_normalized, ev.reference_score)
                   /\ ev.judge_audit.primary_judge # "none" =>
                         (ev.tiebreak_used <=>
                            /\ main_enable_tiebreak
                            /\ DivergesFrom(ev.judge_audit.primary_score,
                                            ev.structural_score, ev.reference_score)
                            /\ ThirdOf(ev) # {})

\* a tiebreak was used in a run whose primary score diverges from its own
\* layer scores, after a run whose layer scores it does not diverge from
C24_Witness ==
    \E i, j \in RecordIxs :
        LET before == all_evaluations[i]
            ev == all_evaluations[j]
        IN  /\ i < j
            /\ ~IsErrorRecord(before) /\ ~IsErrorRecord(ev)
            /\ ev.tiebreak_used
            /\ ~RatEq(ev.structural_score, Rat(0, 1))
            /\ ~DivergesFrom(ev.judge_audit.primary_score,
                             before.structural_score, before.reference_score)

\* --------------------------------------------------------- one judge call
\* the score and the reason of the judge call that returned
JudgeScore == ret[1][1]
JudgeReason == ret[1][2]
JudgeCallReturned == Returned /\ call.op = "_call_judge"
WroteScore == call.reply.kind = "text" /\ call.reply.has_score
Clamp03(n) == Max(0, Min(SCORE_MAX, n))

\* C25: a judge call never raises and always yields an integer score in
\* 0..3: for a reply containing "SCORE: N" the score is N clamped into 0..3;
\* without that format the score is the first standalone digit 0-3 of the
\* text; with neither, and on an error response or a raised exception, the
\* score is 0 with a diagnostic reason.
C25_JudgeCallTotal ==
    /\ pc \in {"call", "returned"}
    /\ JudgeCallReturned =>
          /\ JudgeScore \in 0..SCORE_MAX
          /\ WroteScore => JudgeScore = Clamp03(call.reply.number)
          /\ (call.reply.kind = "text" /\ ~call.reply.has_score) =>
                /\ call.reply.standalone # NoneInt =>
                      JudgeScore = call.reply.standalone
                /\ call.reply.standalone = NoneInt =>
                      JudgeScore = 0 /\ JudgeReason = "(parse fallback)"
          /\ call.reply.kind = "error" =>
                JudgeScore = 0 /\ JudgeReason = "Judge error"
          /\ call.reply.kind = "raise" =>
                JudgeScore = 0 /\ JudgeReason = "Judge exception"

\* what holds of the code: the call never raises, the score is in 0..3, and
\* a number N of a single digit written after "SCORE:" is clamped
JudgeCallSingleDigit ==
    /\ pc \in {"call", "returned"}
    /\ JudgeCallReturned =>
          /\ JudgeScore \in 0..SCORE_MAX
          /\ (WroteScore /\ call.reply.number \in 0..9) =>
                JudgeScore = Clamp03(call.reply.number)

\* the judge wrote "SCORE: 10" and the call scored it 1
C25_Witness ==
    /\ JudgeCallReturned
    /\ WroteScore
    /\ call.reply.number = 10
    /\ JudgeScore = 1

\* ------------------------------------------------- the structural checks
ChecksReturned == Returned /\ call.op = "results"
\* the check cannot be evaluated: its pattern is not a regular expression,
\* or its kind is unknown
Unevaluable(check) ==
    \/ check.check_type \in {"regex_present", "regex_absent"} /\ check.pattern = "("
    \/ check.check_type \notin CheckTypes
\* the sequence without its k-th element
Without(seq, k) == SubSeq(seq, 1, k - 1) \o SubSeq(seq, k + 1, Len(seq))

\* C26: a structural check that cannot be evaluated (an invalid regex
\* pattern or an unknown kind) yields passed = false and score 0.0 with a
\* diagnostic detail, the evaluation returning a result for every check of
\* the list; and the results of the other checks of the list are those the
\* list gives without that check.
C26_FailedCheckIsolated ==
    /\ pc \in {"call", "returned"}
    /\ ChecksReturned =>
          /\ Len(Ret) = Len(call.checks)
          /\ \A k \in 1..Len(call.checks) :
                Unevaluable(call.checks[k]) =>
                    /\ ~Ret[k].passed
                    /\ RatEq(Ret[k].score, Rat(0, 1))
                    /\ Ret[k].detail \in {"Regex invalido", "Tipo desconhecido"}
                    /\ Without(Ret, k)
                          = results_of(Without(call.checks, k), call.text)

\* an absence check with an invalid pattern failed next to a check that
\* passed
C26_Witness ==
    /\ ChecksReturned
    /\ Len(call.checks) = 2
    /\ call.checks[1].check_type = "regex_absent"
    /\ call.checks[1].pattern = "("
    /\ Ret[1].detail = "Regex invalido"
    /\ Ret[2].passed

\* C27: for the minimum-lines check with threshold T and a text of c
\* non-blank lines the score is 1.0 when c >= T, 0.5 when c < T and
\* c >= 0.6 * T, and 0.0 otherwise, and passed is true exactly when c >= T;
\* T = 5 and c = 3 gives 0.5 with passed = false.
C27_MinLines ==
    ChecksReturned =>
      \A k \in 1..Len(call.checks) :
         call.checks[k].check_type = "min_lines" =>
            LET T == call.checks[k].threshold
                c == Cardinality({i \in 1..Len(call.text) : call.text[i] = "x"})
            IN  /\ Ret[k].passed <=> c >= T
                /\ c >= T => RatEq(Ret[k].score, Rat(1, 1))
                /\ (c < T /\ 5 * c >= 3 * T) => RatEq(Ret[k].score, Rat(1, 2))
                /\ 5 * c < 3 * T => RatEq(Ret[k].score, Rat(0, 1))
                /\ (T = 5 /\ c = 3) =>
                      RatEq(Ret[k].score, Rat(1, 2)) /\ ~Ret[k].passed

\* threshold 5 and three lines of text among blank ones
C27_Witness ==
    /\ ChecksReturned
    /\ \E k \in 1..Len(call.checks) :
          /\ call.checks[k].check_type = "min_lines"
          /\ call.checks[k].threshold = 5
          /\ RatEq(Ret[k].score, Rat(1, 2))
    /\ Len(call.text) = 5
    /\ Cardinality({i \in 1..Len(call.text) : call.text[i] = "x"}) = 3

\* --------------------------------------------- the judge-pair agreement
\* the records of the log made for model p with judge j, in log order
JudgedBy(p, j) ==
    SelectSeq(all_evaluations,
              LAMBDA ev : ev.model = p /\ Get(ev, "judge_provider", "") = j)

C29_NoThirdNoTiebreak ==
    (JudgeSelected /\ call.enable_tiebreak /\ Diverges /\ ThirdProviders = {}) =>
        /\ ~Ret.result.tiebreak_used
        /\ Ret.audit.tiebreak_judge = None
        /\ Ret.audit.tiebreak_score = NoneInt
        /\ Ret.audit.final_source = "primary"
        /\ Ret.result.score_raw = Ret.audit.primary_score
        /\ RatEq(Ret.result.normalized, Rat(Ret.audit.primary_score, 3))
        /\ Ret.calls = <<Ret.audit.primary_judge>>

\* exactly two providers in the run, and a primary score 3 against layer
\* scores 0.0
C29_Witness ==
    /\ JudgeSelected
    /\ call.enable_tiebreak
    /\ Diverges
    /\ Len(call.available_providers) = 2
    /\ Ret.audit.primary_score = SCORE_MAX
    /\ Ret.result.score_raw = SCORE_MAX
    /\ ~Ret.result.tiebreak_used

\* ------------------------------------------------- the judge queries of a run
\* the judge queries of run i: at most two; one when no tiebreak is used,
\* to the primary judge; two when one is, to the primary judge and then to
\* the tiebreak judge, two different providers; never to the evaluated one
QueriesFollowAudit(i) ==
    LET ev == all_evaluations[i]
    IN  /\ Len(queries[i]) <= 2
        /\ \A k \in 1..Len(queries[i]) : queries[i][k] # ev.model
        /\ IsJudged(ev) =>
              IF ev.judge_audit.primary_judge = "none" THEN queries[i] = <<>>
              ELSE IF ev.tiebreak_used
              THEN /\ queries[i] = <<ev.judge_audit.primary_judge,
                                     ev.judge_audit.tiebreak_judge>>
                   /\ queries[i][1] # queries[i][2]
              ELSE queries[i] = <<ev.judge_audit.primary_judge>>

\* C30: for every run the number of judge queries is at most two: zero when
\* the provider execution failed or no judge is available, one when no
\* tiebreak is invoked, two when it is; the tiebreak query comes after the
\* primary query, and the two queries go to two different providers,
\* neither being the evaluated one.
C30_JudgeQueries ==
    \A i \in RecordIxs :
        /\ QueriesFollowAudit(i)
        /\ ExecutionFailed(all_evaluations[i]) => queries[i] = <<>>

\* what holds of the code: the same, with no query in the runs that the
\* orchestrator flags as error runs
JudgeQueriesOfFlaggedRuns ==
    \A i \in RecordIxs :
        /\ QueriesFollowAudit(i)
        /\ IsErrorRecord(all_evaluations[i]) => queries[i] = <<>>

\* ATIC could not set up its coordinator, and a judge was queried for the run
C30_Witness ==
    \E i \in RecordIxs :
        /\ ExecutionFailed(all_evaluations[i])
        /\ ~IsErrorRecord(all_evaluations[i])
        /\ Len(queries[i]) >= 1

====
